---- MODULE Spec2Model ----
(***************************************************************************)
(* CityFlow Analytics: the storage layer (LocalFileService, the backend    *)
(* selector) and the export orchestrator (export_results) of               *)
(* processors/main.py, as a state machine.                                 *)
(*                                                                         *)
(* Python values are modelled as follows.  A dict is a function from key   *)
(* strings to values (a TLA+ record), a list is a sequence, None is the    *)
(* record PyNone.  A file is [complete, doc]: the JSON document json.dump  *)
(* wrote, and whether json.dump wrote all of it.  A file name is the       *)
(* sequence of the parts of its stem between underscores, which is what    *)
(* filename.split('_') returns.                                            *)
(***************************************************************************)
EXTENDS Integers, Sequences, FiniteSets, TLC

VARIABLES
    metrics_dir,    \* LocalFileService.metrics_dir: file name -> file
    reports_dir,    \* LocalFileService.reports_dir: file name -> file
    now,            \* the clock datetime.now() reads
    ret,            \* the last service call and what it returned
    last_good,      \* history: key -> what the last save of the key that returned True saved
    results,        \* export_results: the results dict, data type -> result
    results0,       \* history: the results as export_results received them
    run_date,       \* export_results: the date argument
    pc,             \* export_results: where the run is ("raised": left by an exception)
    idx,            \* export_results: the position of the running loop in results.items()
    local_bucket,   \* what the path bucket-cityflow-paris-s3-raw is: "absent", "dir", "file"
    db_service,     \* export_results: the driver get_database_service returned, or "none"
    db_type,        \* export_results: the kind it prints
    mongo_import,   \* get_database_service: "not_tried", or how the import of MongoDBService went
    main_db_type,   \* main: the kind get_database_type returns after the export
    same_dir,       \* whether config.METRICS_DIR is the service's metrics_dir
    aws_execution_env, \* os.environ: <<>> when AWS_EXECUTION_ENV is unset, else <<value>>
    mongo,          \* the document database: (metric_type, date) -> document
    backup_dir,     \* config.METRICS_DIR when it is another directory: file name -> file
    exported_count, \* export_results: exported_count
    log,            \* history: the save_metrics calls and backup writes of the run
    closed,         \* history: the number of close() calls
    chunk_files,    \* the *_chunk_*.csv files of config.PROCESSED_DIR
    tool,           \* which AWS program runs: "dynamo", "setup", "upload" ("none": none)
    apc,            \* upload_to_aws.main: where the run is
    tables,         \* DynamoDB: table name -> (<<partition key, sort key>> -> item)
    s3,             \* S3: the keys of the objects of the reports bucket
    aws_ret,        \* the last call of aws_services / setup_dynamodb_tables and its outcome
    aws_calls,      \* the number of such calls so far
    args,           \* upload_to_aws.main: args (dry_run, type, date)
    out_exists,     \* whether output/metrics and output/reports exist
    uploader,       \* upload_to_aws.main: whether an AWSUploader (the AWS clients) was constructed
    file_list,      \* upload_all_metrics / upload_all_reports: files
    fpos,           \* the position of the loop over files
    stats,          \* upload_all_metrics / upload_all_reports: success, failed; what the last one returned
    total_success,  \* upload_to_aws.main: total_success
    total_failed,   \* upload_to_aws.main: total_failed
    exit_status,    \* the exit status of upload_to_aws (-1 while it runs)
    aws_log,        \* history: the table and bucket writes, the tables created
    writers,        \* two runs in LocalFileService.save_metrics: writer -> where it is, what it saves
    disk,           \* the blocks of the file the two write: the writer each block came from
    first_run       \* history: how the first of two export runs ended and what it left

store_vars == <<metrics_dir, reports_dir, now, ret, last_good>>

export_vars == <<results, results0, run_date, pc, idx, local_bucket, db_service, db_type, main_db_type, mongo_import,
                 same_dir, aws_execution_env, mongo, backup_dir, exported_count, log,
                 closed, chunk_files>>

aws_vars == <<tool, apc, tables, s3, aws_ret, aws_calls, args, out_exists, uploader, file_list,
              fpos, stats, total_success, total_failed, exit_status, aws_log>>

writer_vars == <<writers, disk>>

vars == <<store_vars, export_vars, aws_vars, writer_vars, first_run>>

-----------------------------------------------------------------------------
(* Bounds *)

NTypes == 2
NDates == 2
MaxNow == 2

-----------------------------------------------------------------------------
(* Values *)

\* The keys of the processors dict, in its order.
TypeOrder == <<"bikes", "traffic", "weather", "comptages", "chantiers", "referentiel">>

DataTypes == {TypeOrder[i] : i \in 1..NTypes}

\* ISO-8601 dates, listed in the order Python's string comparison gives them.
DateOrder == <<"2025-10-31", "2025-11-01", "2025-11-04", "2025-11-10", "2025-12-01">>

Dates == {DateOrder[i] : i \in 1..NDates}

DateIndex(d) == CHOOSE i \in 1..Len(DateOrder) : DateOrder[i] = d

\* a <= b on two date strings
StrLeq(a, b) == DateIndex(a) <= DateIndex(b)

PyNone == [py_none |-> TRUE]

Keys == DataTypes \X Dates

\* The keys of the stored entities: a metric record's, a report's
StoreKeys == Keys \cup ({"daily_report"} \X Dates)

\* The data types the service's client below uses: two of them, so that every
\* call meets files of its own type and of another.
StoreTypes == {"bikes", "traffic"}

\* The report the client saves
SampleReport == [summary |-> << [status |-> "ok"] >>]


\* The empty dict {}
EmptyDict == [k \in {} |-> <<>>]

\* dict.get(key, default)
dict_get(d, key, default) == IF key \in DOMAIN d THEN d[key] ELSE default

\* Truthiness of a str, and of a dict or None
TruthyStr(x) == x # ""
TruthyDict(d) == d # PyNone /\ d # EmptyDict

\* The date a processor pre-set on a record (not a processing date of the runs below)
PresetDate == "2025-01-01"

\* A list entry that is no dict (isinstance(metric, dict) is False)
NotADict == [py_str |-> "n/a"]

IsDict(x) == "py_str" \notin DOMAIN x

\* A zone record: zf, arr and date are <<>> for a missing key, else <<value>>.
Zone(zf, arr, date) ==
    [k \in {"zone"} \cup (IF zf = <<>> THEN {} ELSE {"zone_fallback"})
                   \cup (IF arr = <<>> THEN {} ELSE {"arrondissement"})
                   \cup (IF date = <<>> THEN {} ELSE {"date"}) |->
        CASE k = "zone"           -> "Z"
          [] k = "zone_fallback"  -> zf[1]
          [] k = "arrondissement" -> arr[1]
          [] OTHER                -> date[1]]

\* Every combination of a zone_fallback that is missing, empty or set with an
\* arrondissement that is missing, "Unknown" or a district
SampleZones ==
    << Zone(<<>>, <<"12">>, <<"">>),            Zone(<<>>, <<"Unknown">>, <<>>),
       Zone(<<>>, <<>>, <<PresetDate>>),        Zone(<<"">>, <<"12">>, <<>>),
       Zone(<<"">>, <<"Unknown">>, <<"">>),     Zone(<<"">>, <<>>, <<>>),
       Zone(<<"Paris Centre">>, <<"12">>, <<"">>),
       Zone(<<"Paris Centre">>, <<"Unknown">>, <<PresetDate>>),
       Zone(<<"Paris Centre">>, <<>>, <<>>) >>

\* Indicators of a processor: a small payload, and a payload with every
\* collection the shaping pass knows, one it does not know (debit_horaire), and a
\* per-segment list (metrics) of several entries.
IndSmall ==
    [metrics |-> << [troncon |-> "A1", date |-> ""] >>]

IndLarge ==
    [metrics |-> << [troncon |-> "A1", date |-> ""],
                    [troncon |-> "A2", date |-> PresetDate],
                    [troncon |-> "A3"],
                    NotADict >>,
     top_10_troncons |-> << [troncon |-> "A1", date |-> ""],
                            [troncon |-> "A2", date |-> PresetDate] >>,
     top_10_zones_congestionnees |-> SampleZones,
     alertes_congestion |-> << [niveau |-> "high", date |-> ""],
                               [niveau |-> "low", date |-> PresetDate],
                               [niveau |-> "low"] >>,
     debit_horaire |-> << [heure |-> "08", date |-> ""],
                          [heure |-> "09", date |-> PresetDate] >>]

IndicatorChoices == {EmptyDict, IndSmall, IndLarge}

\* A payload json.dump cannot encode, such as {(1, 2): 3}: a key that is a tuple
\* raises TypeError, which default=str does not prevent.
Unencodable == [py_tuple_key |-> <<>>]

Encodable(data) == "py_tuple_key" \notin DOMAIN data

\* Payloads the service's clients save: two JSON-native trees, and one json.dump
\* raises on.
SampleMetrics ==
    { [metrics |-> << [troncon |-> "A1", date |-> "2025-11-01"] >>],
      [total |-> << [value |-> "42"] >>],
      Unencodable }

-----------------------------------------------------------------------------
(* Files and JSON *)

\* open(path, 'w') then a json.dump that returned: the whole document is in the file.
json_dump(data) == [complete |-> TRUE, doc |-> data]

\* open(path, 'w') truncated the file and json.dump raised before the document
\* was complete: the file holds a prefix of the text, which is no JSON document.
TruncatedFile == [complete |-> FALSE, doc |-> [truncated |-> TRUE]]

\* json.load(f): the document, or an exception on text that is no JSON document.
json_load(file) == [raised |-> ~file.complete,
                    value  |-> IF file.complete THEN file.doc ELSE PyNone]

WriteFile(dir, path, file) ==
    [p \in (DOMAIN dir) \cup {path} |-> IF p = path THEN file ELSE dir[p]]

\* How one call that writes a file can go: it returns normally, open() raises
\* (the directory is gone or not writable: the file is untouched), or json.dump
\* raises after open() truncated the file (a key json cannot encode, a circular
\* reference, a full disk).
WriteOutcomes == {"ok", "open_raises", "dump_raises"}

FileAfterWrite(dir, path, data, io) ==
    CASE io = "ok"          -> WriteFile(dir, path, json_dump(data))
      [] io = "dump_raises" -> WriteFile(dir, path, TruncatedFile)
      [] OTHER              -> dir

-----------------------------------------------------------------------------
(* LocalFileService *)

\* The file named by the date alone
get_metrics_path_date_only(data_type, date) == <<"all", "metrics", date>>

\* f"{data_type}_metrics_{date}.json": the parts of the stem
get_metrics_path(data_type, date) == <<data_type, "metrics", date>>

\* f"daily_report_{date}.json"
get_report_path(date) == <<"daily", "report", date>>

MetricRecord(metrics, data_type, date, ts) ==
    [metric_type |-> data_type, date |-> date, timestamp |-> ts, metrics |-> metrics]

ReportRecord(report, date, ts) ==
    [report_id |-> <<"daily", "report", date>>, date |-> date, timestamp |-> ts,
     report |-> report]

\* save_metrics: the metrics directory after the call, and what the call returns
save_metrics_dir(dir, metrics, data_type, date, ts, io) ==
    FileAfterWrite(dir, get_metrics_path(data_type, date),
                   MetricRecord(metrics, data_type, date, ts), io)

save_metrics_ret(io) == io = "ok"

\* load_metrics with the missing file answered by an empty dict instead of None
load_metrics_empty_dict(dir, data_type, date) ==
    LET path == get_metrics_path(data_type, date) IN
    IF path \notin DOMAIN dir THEN EmptyDict
    ELSE LET data == json_load(dir[path]) IN
         IF data.raised THEN PyNone ELSE dict_get(data.value, "metrics", PyNone)

\* load_metrics: the stored metrics, or None (no file, or any exception)
load_metrics(dir, data_type, date) ==
    LET path == get_metrics_path(data_type, date) IN
    IF path \notin DOMAIN dir THEN PyNone
    ELSE LET data == json_load(dir[path]) IN
         IF data.raised THEN PyNone ELSE dict_get(data.value, "metrics", PyNone)

save_report_dir(dir, report, date, ts, io) ==
    FileAfterWrite(dir, get_report_path(date), ReportRecord(report, date, ts), io)

load_report(dir, date) ==
    LET path == get_report_path(date) IN
    IF path \notin DOMAIN dir THEN PyNone
    ELSE LET data == json_load(dir[path]) IN
         IF data.raised THEN PyNone ELSE dict_get(data.value, "report", PyNone)

\* metrics_dir.glob(f"{data_type}_metrics_*.json")
glob_metrics(dir, data_type) ==
    {p \in DOMAIN dir : Len(p) >= 3 /\ p[1] = data_type /\ p[2] = "metrics"}

\* The list of the date parts of the files, after list.sort(): one element per
\* file, smallest date first.
RECURSIVE SortDates(_)
SortDates(files) ==
    IF files = {} THEN <<>>
    ELSE LET m == CHOOSE p \in files : \A q \in files : StrLeq(p[Len(p)], q[Len(q)])
         IN <<m[Len(m)]>> \o SortDates(files \ {m})

\* results.sort(key=lambda x: x.get("date", "")) on entries of distinct dates
RECURSIVE SortByDate(_)
SortByDate(S) ==
    IF S = {} THEN <<>>
    ELSE LET m == CHOOSE x \in S : \A y \in S : StrLeq(x.date, y.date)
         IN <<m>> \o SortByDate(S \ {m})

\* The files of the glob whose date part lies in [start_date, end_date]
FilesInRange(dir, data_type, start_date, end_date) ==
    {p \in glob_metrics(dir, data_type) :
        StrLeq(start_date, p[Len(p)]) /\ StrLeq(p[Len(p)], end_date)}

\* query_metrics_by_date_range: one entry per file of the range, sorted by
\* date; [] when reading any of the files raises (the try encloses the loop).
query_metrics_by_date_range(dir, data_type, start_date, end_date) ==
    LET files == FilesInRange(dir, data_type, start_date, end_date) IN
    IF \E p \in files : json_load(dir[p]).raised THEN <<>>
    ELSE SortByDate({ [date    |-> dict_get(json_load(dir[p]).value, "date", p[Len(p)]),
                       metrics |-> dict_get(json_load(dir[p]).value, "metrics", PyNone)]
                      : p \in files })

\* list_available_dates: the date part of every file of the glob, sorted
list_available_dates(dir, data_type) ==
    SortDates(glob_metrics(dir, data_type))

\* get_latest_metrics
get_latest_metrics(dir, data_type) ==
    LET dates == list_available_dates(dir, data_type) IN
    IF dates = <<>> THEN PyNone ELSE load_metrics(dir, data_type, dates[Len(dates)])

-----------------------------------------------------------------------------
(* The service under the calls of a client *)

NoCall == [op |-> "none", data_type |-> "", date |-> "", end_date |-> "",
           ok |-> TRUE, val |-> PyNone, seq |-> <<>>]

\* No AWS program runs
NoAwsCall == [op |-> "none", ok |-> TRUE, exc |-> "", fault |-> "none", table_name |-> ""]

NoArgs == [dry_run |-> FALSE, type |-> "all", date |-> <<>>]

AwsIdle ==
    /\ tool = "none"
    /\ apc = "idle"
    /\ tables = EmptyDict
    /\ s3 = {}
    /\ aws_ret = NoAwsCall
    /\ aws_calls = 0
    /\ args = NoArgs
    /\ out_exists = [metrics |-> TRUE, reports |-> TRUE]
    /\ uploader = FALSE
    /\ file_list = <<>>
    /\ fpos = 1
    /\ stats = [success |-> 0, failed |-> 0]
    /\ total_success = 0
    /\ total_failed = 0
    /\ exit_status = -1
    /\ aws_log = <<>>

\* No run is inside save_metrics
NoWriters == [w \in {} |-> <<>>]

\* No export run has ended
NoRun == [ended |-> "none"]

SingleRun ==
    /\ writers = NoWriters
    /\ disk = <<>>
    /\ first_run = NoRun

InitStore ==
    /\ metrics_dir = EmptyDict
    /\ reports_dir = EmptyDict
    /\ now = 0
    /\ ret = NoCall
    /\ last_good = [k \in StoreKeys |-> PyNone]
    /\ results = EmptyDict
    /\ results0 = EmptyDict
    /\ run_date = DateOrder[1]
    /\ pc = "idle"
    /\ idx = 1
    /\ local_bucket = "absent"
    /\ db_service = "local_files"
    /\ db_type = "local_files"
    /\ main_db_type = "unset"
    /\ mongo_import = "not_tried"
    /\ same_dir = FALSE
    /\ aws_execution_env = <<>>
    /\ mongo = EmptyDict
    /\ backup_dir = EmptyDict
    /\ exported_count = 0
    /\ log = <<>>
    /\ closed = 0
    /\ chunk_files = {}
    /\ AwsIdle
    /\ SingleRun

CallSaveMetrics(metrics, data_type, date, io) ==
    /\ now < MaxNow
    /\ io = "ok" => Encodable(metrics)
    /\ now' = now + 1
    /\ metrics_dir' = save_metrics_dir(metrics_dir, metrics, data_type, date, now', io)
    /\ ret' = [NoCall EXCEPT !.op = "save_metrics", !.data_type = data_type,
                             !.date = date, !.ok = save_metrics_ret(io), !.val = metrics]
    /\ last_good' = IF save_metrics_ret(io)
                    THEN [last_good EXCEPT ![<<data_type, date>>] = metrics]
                    ELSE last_good
    /\ UNCHANGED reports_dir
    /\ UNCHANGED export_vars
    /\ UNCHANGED aws_vars
    /\ UNCHANGED <<writer_vars, first_run>>

CallLoadMetrics(data_type, date) ==
    /\ ret' = [NoCall EXCEPT !.op = "load_metrics", !.data_type = data_type,
                             !.date = date,
                             !.val = load_metrics(metrics_dir, data_type, date)]
    /\ UNCHANGED <<metrics_dir, reports_dir, now, last_good>>
    /\ UNCHANGED export_vars
    /\ UNCHANGED aws_vars
    /\ UNCHANGED <<writer_vars, first_run>>

CallSaveReport(report, date, io) ==
    /\ now < MaxNow
    /\ now' = now + 1
    /\ reports_dir' = save_report_dir(reports_dir, report, date, now', io)
    /\ ret' = [NoCall EXCEPT !.op = "save_report", !.date = date,
                             !.ok = (io = "ok"), !.val = report]
    /\ last_good' = IF io = "ok"
                    THEN [last_good EXCEPT ![<<"daily_report", date>>] = report]
                    ELSE last_good
    /\ UNCHANGED metrics_dir
    /\ UNCHANGED export_vars
    /\ UNCHANGED aws_vars
    /\ UNCHANGED <<writer_vars, first_run>>

CallLoadReport(date) ==
    /\ ret' = [NoCall EXCEPT !.op = "load_report", !.date = date,
                             !.val = load_report(reports_dir, date)]
    /\ UNCHANGED <<metrics_dir, reports_dir, now, last_good>>
    /\ UNCHANGED export_vars
    /\ UNCHANGED aws_vars
    /\ UNCHANGED <<writer_vars, first_run>>

CallQueryRange(data_type, start_date, end_date) ==
    /\ ret' = [NoCall EXCEPT !.op = "query_metrics_by_date_range",
                             !.data_type = data_type, !.date = start_date,
                             !.end_date = end_date,
                             !.seq = query_metrics_by_date_range(
                                         metrics_dir, data_type, start_date, end_date)]
    /\ UNCHANGED <<metrics_dir, reports_dir, now, last_good>>
    /\ UNCHANGED export_vars
    /\ UNCHANGED aws_vars
    /\ UNCHANGED <<writer_vars, first_run>>

CallListDates(data_type) ==
    /\ ret' = [NoCall EXCEPT !.op = "list_available_dates", !.data_type = data_type,
                             !.seq = list_available_dates(metrics_dir, data_type)]
    /\ UNCHANGED <<metrics_dir, reports_dir, now, last_good>>
    /\ UNCHANGED export_vars
    /\ UNCHANGED aws_vars
    /\ UNCHANGED <<writer_vars, first_run>>

CallLatest(data_type) ==
    /\ ret' = [NoCall EXCEPT !.op = "get_latest_metrics", !.data_type = data_type,
                             !.val = get_latest_metrics(metrics_dir, data_type)]
    /\ UNCHANGED <<metrics_dir, reports_dir, now, last_good>>
    /\ UNCHANGED export_vars
    /\ UNCHANGED aws_vars
    /\ UNCHANGED <<writer_vars, first_run>>

\* The client of the service: any write at any time, and any read of the store
\* as the last write left it. (A read changes nothing but ret, so a read after
\* a read would meet the same store and return the same as that read after the
\* write.)
AfterWrite == ret.op \in {"none", "save_metrics", "save_report"}

NextStore ==
    \/ \E m \in SampleMetrics, t \in StoreTypes, d \in Dates, io \in WriteOutcomes :
          CallSaveMetrics(m, t, d, io)
    \/ \E t \in StoreTypes, d \in Dates : AfterWrite /\ CallLoadMetrics(t, d)
    \/ \E d \in Dates, io \in WriteOutcomes : CallSaveReport(SampleReport, d, io)
    \/ \E d \in Dates : AfterWrite /\ CallLoadReport(d)
    \/ \E t \in StoreTypes, a \in Dates, b \in Dates : AfterWrite /\ CallQueryRange(t, a, b)
    \/ \E t \in StoreTypes : AfterWrite /\ CallListDates(t)
    \/ \E t \in StoreTypes : AfterWrite /\ CallLatest(t)

SpecStore == InitStore /\ [][NextStore]_vars

-----------------------------------------------------------------------------
(* LocalFileService.save_metrics in two runs at once *)

\* The two runs (processes) that save the same key
Writers == {"run_1", "run_2"}

\* The payloads the two save: their JSON texts differ in length
WriterMetrics == {IndSmall, IndLarge}

\* The length of the JSON text of the record, in blocks. A block is written
\* at once; the buffered file object hands a text longer than its buffer to
\* the operating system in several writes, the last of them when the with
\* block closes the file.
Blocks(metrics) == IF metrics = IndLarge THEN 2 ELSE 1

\* The text in the file: the record of writer w when the blocks are the
\* blocks of w's text and no others, else no JSON document of either writer
\* (an empty file, a hole, the text of one followed by the end of the other's)
FileOnDisk(ws, blocks) ==
    IF \E w \in DOMAIN ws : ws[w].pc # "start" /\ blocks = [i \in 1..ws[w].n |-> w]
    THEN LET w == CHOOSE w \in DOMAIN ws :
                      ws[w].pc # "start" /\ blocks = [i \in 1..ws[w].n |-> w]
         IN json_dump(MetricRecord(ws[w].metrics, ws[w].data_type, ws[w].date, ws[w].ts))
    ELSE TruncatedFile

\* A block written at position pos of the file: each run has its own file
\* offset, the file grows (with a hole) when the offset is past its end
WriteBlock(blocks, pos, w) ==
    [i \in 1..(IF pos > Len(blocks) THEN pos ELSE Len(blocks)) |->
        IF i = pos THEN w ELSE IF i <= Len(blocks) THEN blocks[i] ELSE "hole"]

\* data = {...}; open(file_path, 'w'): the file is truncated
WriterOpen(w) ==
    /\ writers[w].pc = "start"
    /\ now' = now + 1
    /\ writers' = [writers EXCEPT ![w].pc = "opened", ![w].ts = now', ![w].pos = 1]
    /\ disk' = <<>>
    /\ metrics_dir' = WriteFile(metrics_dir,
                                get_metrics_path(writers[w].data_type, writers[w].date),
                                FileOnDisk(writers', disk'))
    /\ UNCHANGED <<reports_dir, ret, last_good>>
    /\ UNCHANGED <<export_vars, aws_vars, first_run>>

\* json.dump(data, f, ...): the next block of the text is written at the
\* run's offset
WriterWrite(w) ==
    /\ writers[w].pc = "opened"
    /\ writers[w].pos <= writers[w].n
    /\ writers' = [writers EXCEPT ![w].pos = @ + 1]
    /\ disk' = WriteBlock(disk, writers[w].pos, w)
    /\ metrics_dir' = WriteFile(metrics_dir,
                                get_metrics_path(writers[w].data_type, writers[w].date),
                                FileOnDisk(writers', disk'))
    /\ UNCHANGED <<reports_dir, now, ret, last_good>>
    /\ UNCHANGED <<export_vars, aws_vars, first_run>>

\* The with block is left and save_metrics returns True
WriterReturn(w) ==
    /\ writers[w].pc = "opened"
    /\ writers[w].pos > writers[w].n
    /\ writers' = [writers EXCEPT ![w].pc = "returned"]
    /\ UNCHANGED <<store_vars, disk>>
    /\ UNCHANGED <<export_vars, aws_vars, first_run>>

InitWriters ==
    /\ \E data_type \in StoreTypes, date \in Dates :
          writers \in [Writers -> [pc : {"start"}, metrics : WriterMetrics,
                                   data_type : {data_type}, date : {date},
                                   n : {1, 2}, ts : {0}, pos : {1}]]
    /\ \A w \in Writers : writers[w].n = Blocks(writers[w].metrics)
    /\ disk = <<>>
    /\ first_run = NoRun
    /\ metrics_dir = EmptyDict
    /\ reports_dir = EmptyDict
    /\ now = 0
    /\ ret = NoCall
    /\ last_good = [k \in StoreKeys |-> PyNone]
    /\ results = EmptyDict
    /\ results0 = EmptyDict
    /\ run_date = DateOrder[1]
    /\ pc = "idle"
    /\ idx = 1
    /\ local_bucket = "absent"
    /\ db_service = "local_files"
    /\ db_type = "local_files"
    /\ main_db_type = "unset"
    /\ mongo_import = "not_tried"
    /\ same_dir = FALSE
    /\ aws_execution_env = <<>>
    /\ mongo = EmptyDict
    /\ backup_dir = EmptyDict
    /\ exported_count = 0
    /\ log = <<>>
    /\ closed = 0
    /\ chunk_files = {}
    /\ AwsIdle

NextWriters ==
    \/ \E w \in Writers : WriterOpen(w)
    \/ \E w \in Writers : WriterWrite(w)
    \/ \E w \in Writers : WriterReturn(w)

SpecWriters == InitWriters /\ [][NextWriters]_vars

-----------------------------------------------------------------------------
(* export_results: the shaping pass *)

\* fill_date without the test that the date is empty
fill_date_always(record, date) ==
    IF "date" \in DOMAIN record THEN [record EXCEPT !["date"] = date] ELSE record

\* fill_date that adds the date to the one the record has
fill_date_append(record, date) ==
    IF "date" \in DOMAIN record
    THEN [record EXCEPT !["date"] = record["date"] \o date]
    ELSE record

\* if "date" in record and record["date"] == "": record["date"] = date
fill_date(record, date) ==
    IF "date" \in DOMAIN record /\ record["date"] = ""
    THEN [record EXCEPT !["date"] = date]
    ELSE record

\* for metric in indicators["metrics"]: only a dict is touched
shape_metric(metric, date) ==
    IF IsDict(metric) THEN fill_date(metric, date) ELSE metric

\* fill_zone_fallback without the test for the "Unknown" arrondissement
fill_zone_fallback_any_arr(zone) ==
    IF "zone_fallback" \notin DOMAIN zone \/ ~TruthyStr(zone["zone_fallback"])
    THEN LET arr == dict_get(zone, "arrondissement", "Unknown")
         IN [k \in (DOMAIN zone) \cup {"zone_fallback"} |->
                IF k = "zone_fallback" THEN "Arrondissement " \o arr ELSE zone[k]]
    ELSE zone

\* zone["zone_fallback"] = f"Arrondissement {arr}" or "Unknown", when the zone
\* has no zone_fallback or an empty one
fill_zone_fallback(zone) ==
    IF "zone_fallback" \notin DOMAIN zone \/ ~TruthyStr(zone["zone_fallback"])
    THEN LET arr == dict_get(zone, "arrondissement", "Unknown")
             fallback == IF arr # "Unknown" THEN "Arrondissement " \o arr ELSE "Unknown"
         IN [k \in (DOMAIN zone) \cup {"zone_fallback"} |->
                IF k = "zone_fallback" THEN fallback ELSE zone[k]]
    ELSE zone

shape_zone(zone, date) == fill_zone_fallback(fill_date(zone, date))

\* The body of the first loop of export_results for one indicators dict
shape_indicators(indicators, date) ==
    [k \in DOMAIN indicators |->
        CASE k = "metrics" ->
               [i \in 1..Len(indicators[k]) |-> shape_metric(indicators[k][i], date)]
          [] k \in {"top_10_troncons", "alertes_congestion"} ->
               [i \in 1..Len(indicators[k]) |-> fill_date(indicators[k][i], date)]
          [] k = "top_10_zones_congestionnees" ->
               [i \in 1..Len(indicators[k]) |-> shape_zone(indicators[k][i], date)]
          [] OTHER -> indicators[k]]

\* if result and result.get("indicators"): ... (the indicators are changed in place)
shape_result(result, date) ==
    IF TruthyDict(dict_get(result, "indicators", PyNone))
    THEN [result EXCEPT !["indicators"] = shape_indicators(result["indicators"], date)]
    ELSE result

-----------------------------------------------------------------------------
(* utils.metrics_optimizer and processors.utils.file_utils.save_json *)

\* The per-item ceiling: the number of entries of the per-segment list
ItemCeiling == 3

Oversized(indicators) ==
    "metrics" \in DOMAIN indicators /\ Len(indicators["metrics"]) > ItemCeiling

\* should_optimize_for_mongodb: the document database is the active backend and
\* the payload exceeds the ceiling
should_optimize_for_mongodb(service, data_type, indicators) ==
    service = "mongodb" /\ Oversized(indicators)

\* optimize_metrics_for_storage: the payload without its per-segment list
optimize_metrics_for_storage(data_type, indicators) ==
    [k \in (DOMAIN indicators) \ {"metrics"} |-> indicators[k]]

\* save_json(data, path): the data as a JSON document at path
save_json(dir, data, path) == WriteFile(dir, path, json_dump(data))

\* MongoDBService.save_metrics: one document per (metric_type, date), replaced
\* by a later save; False and no change when the database refuses the write
mongo_save_metrics(db, metrics, data_type, date, ts, io) ==
    IF io = "ok"
    THEN [k \in (DOMAIN db) \cup {<<data_type, date>>} |->
             IF k = <<data_type, date>> THEN MetricRecord(metrics, data_type, date, ts)
             ELSE db[k]]
    ELSE db

-----------------------------------------------------------------------------
(* utils.database_factory *)

\* What the working directory can hold at the path bucket-cityflow-paris-s3-raw
LocalBucketStates == {"absent", "dir", "file"}

\* Path.exists(): true of a directory and of a file alike
path_exists(p) == p # "absent"

\* get_database_service: the kind the probe of the sentinel directory selects
select_db_type(exists) == IF ~exists THEN "local_files" ELSE "mongodb"

\* What get_database_service does: [exc, service], the exception it raises
\* ("" for none) and the driver it returns ("none" when it raises).
Returned(service) == [exc |-> "", service |-> service]
Raised(exc) == [exc |-> exc, service |-> "none"]

\* The selector with a fallback: LocalFileService when MongoDBService cannot be
\* imported
get_database_service_fallback(exists, importable, constructs) ==
    IF select_db_type(exists) = "mongodb" /\ importable
    THEN IF constructs THEN Returned("mongodb") ELSE Raised("Exception")
    ELSE IF constructs THEN Returned("local_files") ELSE Raised("Exception")

\* get_database_service: on the document-database branch the import of
\* MongoDBService raises ImportError when the client library is missing, and
\* the handler raises it again; the constructor of either driver can raise
\* (no connection, the directories cannot be made).
get_database_service(exists, importable, constructs) ==
    IF select_db_type(exists) = "mongodb"
    THEN IF ~importable THEN Raised("ImportError")
         ELSE IF constructs THEN Returned("mongodb") ELSE Raised("Exception")
    ELSE IF constructs THEN Returned("local_files") ELSE Raised("Exception")

\* The document-database kind whatever the probe finds
get_database_type_always_mongodb(exists) == "mongodb"

\* get_database_type
get_database_type(exists) == IF ~exists THEN "local_files" ELSE "mongodb"

-----------------------------------------------------------------------------
(* export_results *)

\* What a processor returns: {success, indicators, errors}; main() stores
\* {"success": False, "errors": [...]} for a processor that raised.
ResultChoices ==
    { [success |-> FALSE, errors |-> <<"error">>],
      [success |-> FALSE, indicators |-> IndLarge, errors |-> <<"error">>] }
    \cup { [success |-> TRUE, indicators |-> i, errors |-> <<>>] : i \in IndicatorChoices }

\* os.getenv("AWS_EXECUTION_ENV"): unset, set to the empty string, set by Lambda
EnvChoices == {<<>>, <<"">>, <<"AWS_Lambda_python3.11">>}

\* not os.getenv(name)
NotGetenv(env) == env = <<>> \/ ~TruthyStr(env[1])

\* results.items(): main() fills results in the order of the processors dict
RECURSIVE ItemsOrder(_, _)
ItemsOrder(present, i) ==
    IF i > Len(TypeOrder) THEN <<>>
    ELSE (IF TypeOrder[i] \in present THEN <<TypeOrder[i]>> ELSE <<>>)
         \o ItemsOrder(present, i + 1)

order == ItemsOrder(DOMAIN results, 1)

InitExport ==
    /\ metrics_dir = EmptyDict
    /\ reports_dir = EmptyDict
    /\ now = 0
    /\ ret = NoCall
    /\ last_good = [k \in StoreKeys |-> PyNone]
    /\ \E present \in SUBSET DataTypes : results \in [present -> ResultChoices]
    /\ results0 = results
    /\ run_date \in Dates
    /\ pc = "shape"
    /\ idx = 1
    /\ local_bucket \in LocalBucketStates
    /\ db_service = "unset"
    /\ db_type = "unset"
    /\ main_db_type = "unset"
    /\ mongo_import = "not_tried"
    /\ same_dir = FALSE
    /\ aws_execution_env \in EnvChoices
    /\ mongo = EmptyDict
    /\ backup_dir = EmptyDict
    /\ exported_count = 0
    /\ log = <<>>
    /\ closed = 0
    /\ chunk_files = {"comptages_chunk_1.csv"}
    /\ AwsIdle
    /\ SingleRun

\* One round of the first loop: the dates and zone fallbacks of one result
ShapeOne ==
    /\ pc = "shape"
    /\ idx <= Len(order)
    /\ results' = [results EXCEPT ![order[idx]] = shape_result(results[order[idx]], run_date)]
    /\ idx' = idx + 1
    /\ UNCHANGED <<store_vars, results0, run_date, pc, local_bucket, db_service, db_type, main_db_type, mongo_import,
                   same_dir, aws_execution_env, mongo, backup_dir, exported_count, log,
                   closed, chunk_files>>
    /\ UNCHANGED aws_vars
    /\ UNCHANGED <<writer_vars, first_run>>

ShapeDone ==
    /\ pc = "shape"
    /\ idx > Len(order)
    /\ pc' = "get_service"
    /\ idx' = 1
    /\ UNCHANGED <<store_vars, results, results0, run_date, local_bucket, db_service,
                   db_type, main_db_type, mongo_import, same_dir, aws_execution_env, mongo, backup_dir, exported_count,
                   log, closed, chunk_files>>
    /\ UNCHANGED aws_vars
    /\ UNCHANGED <<writer_vars, first_run>>

\* try: db_service = get_database_service(); db_type = get_database_type()
\* except Exception: db_service = None; db_type = "local"
GetService(importable, constructs, same) ==
    /\ pc = "get_service"
    /\ LET call == get_database_service(path_exists(local_bucket), importable, constructs)
       IN /\ mongo_import' = IF select_db_type(path_exists(local_bucket)) # "mongodb"
                                THEN "not_tried"
                             ELSE IF importable THEN "imported" ELSE "ImportError"
          /\ IF call.exc = ""
             THEN /\ db_service' = call.service
                  /\ same_dir' = (same /\ call.service = "local_files")
                  /\ pc' = "get_type"
                  /\ UNCHANGED db_type
             ELSE /\ db_service' = "none"
                  /\ db_type' = "local"
                  /\ pc' = "export"
                  /\ UNCHANGED same_dir
    /\ UNCHANGED <<store_vars, results, results0, run_date, idx, local_bucket,
                   main_db_type, aws_execution_env, mongo, backup_dir, exported_count,
                   log, closed, chunk_files>>
    /\ UNCHANGED aws_vars
    /\ UNCHANGED <<writer_vars, first_run>>

\* db_type = get_database_type()
GetType ==
    /\ pc = "get_type"
    /\ db_type' = get_database_type(path_exists(local_bucket))
    /\ pc' = "export"
    /\ UNCHANGED <<store_vars, results, results0, run_date, idx, local_bucket, db_service,
                   main_db_type, mongo_import, same_dir, aws_execution_env, mongo, backup_dir, exported_count, log,
                   closed, chunk_files>>
    /\ UNCHANGED aws_vars
    /\ UNCHANGED <<writer_vars, first_run>>

\* if result and result.get("success"): indicators = result.get("indicators", {});
\* if indicators: ...
Exportable(result) ==
    /\ dict_get(result, "success", FALSE)
    /\ TruthyDict(dict_get(result, "indicators", EmptyDict))

\* The test of the payload's size alone, whatever the driver
UseOptimized_any_driver(service, data_type, indicators) ==
    service # "none" /\ Oversized(indicators)

\* if db_service and should_optimize_for_mongodb(data_type, indicators)
UseOptimized(service, data_type, indicators) ==
    service # "none" /\ should_optimize_for_mongodb(service, data_type, indicators)

\* The metrics argument of db_service.save_metrics
BackendPayload(service, data_type, indicators) ==
    IF UseOptimized(service, data_type, indicators)
    THEN optimize_metrics_for_storage(data_type, indicators)
    ELSE indicators

\* save_metrics called whether or not there is a driver
CallsBackend_always(service) == TRUE

\* if db_service: (either branch calls save_metrics only with a driver)
CallsBackend(service) == service # "none"

\* The backup written whatever the environment
WritesBackup_always(env) == TRUE

\* if not os.getenv("AWS_EXECUTION_ENV"): save_json(indicators, ...)
WritesBackup(env) == NotGetenv(env)

\* The backup written from the payload of the backend
BackupPayload_trimmed(service, data_type, indicators) ==
    BackendPayload(service, data_type, indicators)

\* The data argument of save_json
BackupPayload(service, data_type, indicators) == indicators

\* The count raised for every save_metrics call
CountAfter_always(count, success) == count + 1

\* if success: exported_count += 1
CountAfter(count, success) == IF success THEN count + 1 ELSE count

\* What the backend write of the loop can do: return (WriteOutcomes), or raise.
\* LocalFileService.save_metrics catches every Exception, so only a driver
\* other than LocalFileService can raise out of save_metrics.
SaveOutcomes == WriteOutcomes \cup {"save_raises"}

\* What save_json can do: write the file, or raise (the directory cannot be
\* written, the disk is full)
BackupOutcomes == {"ok", "raises"}

\* One round of the second loop: the backend write, then the local backup.
\* No statement of the loop is inside a try: an exception out of save_metrics
\* or save_json leaves export_results at once.
ExportOne(io, bio) ==
    /\ pc = "export"
    /\ idx <= Len(order)
    /\ LET data_type  == order[idx]
           result     == results[data_type]
           indicators == dict_get(result, "indicators", EmptyDict)
           payload    == BackendPayload(db_service, data_type, indicators)
           calls      == Exportable(result) /\ CallsBackend(db_service)
           save_exc   == calls /\ io = "save_raises"
           saves      == calls /\ ~save_exc
           success    == saves /\ save_metrics_ret(io)
           tries      == Exportable(result) /\ ~save_exc /\ WritesBackup(aws_execution_env)
           back_exc   == tries /\ bio = "raises"
           backs      == tries /\ ~back_exc
           path       == get_metrics_path(data_type, run_date)
           written    == IF saves /\ db_service = "local_files"
                         THEN save_metrics_dir(metrics_dir, payload, data_type, run_date,
                                               now + 1, io)
                         ELSE metrics_dir
       IN /\ io \in (IF calls /\ db_service = "mongodb" THEN SaveOutcomes ELSE WriteOutcomes)
          /\ bio \in (IF tries THEN BackupOutcomes ELSE {"ok"})
          /\ now' = IF saves THEN now + 1 ELSE now
          /\ mongo' = IF saves /\ db_service = "mongodb"
                      THEN mongo_save_metrics(mongo, payload, data_type, run_date,
                                              now + 1, io)
                      ELSE mongo
          /\ metrics_dir' = IF backs /\ same_dir
                            THEN save_json(written,
                                           BackupPayload(db_service, data_type, indicators),
                                           path)
                            ELSE written
          /\ backup_dir' = IF backs /\ ~same_dir
                           THEN save_json(backup_dir,
                                          BackupPayload(db_service, data_type, indicators),
                                          path)
                           ELSE backup_dir
          /\ exported_count' = IF saves THEN CountAfter(exported_count, success)
                               ELSE exported_count
          /\ log' = log
                    \o (IF calls
                        THEN << [ev |-> IF save_exc THEN "save_raised" ELSE "save_metrics",
                                 data_type |-> data_type,
                                 metrics |-> payload, ok |-> success] >>
                        ELSE <<>>)
                    \o (IF tries
                        THEN << [ev |-> IF back_exc THEN "backup_raised" ELSE "backup",
                                 data_type |-> data_type,
                                 metrics |-> BackupPayload(db_service, data_type,
                                                           indicators),
                                 ok |-> ~back_exc] >>
                        ELSE <<>>)
          /\ pc' = IF save_exc \/ back_exc THEN "raised" ELSE pc
          /\ idx' = IF save_exc \/ back_exc THEN idx ELSE idx + 1
    /\ UNCHANGED <<reports_dir, ret, last_good, results, results0, run_date,
                   local_bucket, db_service, db_type, main_db_type, mongo_import, same_dir, aws_execution_env,
                   closed, chunk_files>>
    /\ UNCHANGED aws_vars
    /\ UNCHANGED <<writer_vars, first_run>>

ExportDone ==
    /\ pc = "export"
    /\ idx > Len(order)
    /\ pc' = "close"
    /\ UNCHANGED <<store_vars, results, results0, run_date, idx, local_bucket, db_service,
                   db_type, main_db_type, mongo_import, same_dir, aws_execution_env, mongo, backup_dir, exported_count,
                   log, closed, chunk_files>>
    /\ UNCHANGED aws_vars
    /\ UNCHANGED <<writer_vars, first_run>>

\* if db_service and hasattr(db_service, 'close'): db_service.close()
Close ==
    /\ pc = "close"
    /\ closed' = IF db_service # "none" THEN closed + 1 ELSE closed
    /\ pc' = "cleanup"
    /\ UNCHANGED <<store_vars, results, results0, run_date, idx, local_bucket, db_service,
                   db_type, main_db_type, mongo_import, same_dir, aws_execution_env, mongo, backup_dir, exported_count,
                   log, chunk_files>>
    /\ UNCHANGED aws_vars
    /\ UNCHANGED <<writer_vars, first_run>>

\* cleanup_processed_chunks(config, keep_chunks=False): every chunk file is
\* removed, but for those os.remove fails on; then the final count is printed.
Cleanup(kept) ==
    /\ pc = "cleanup"
    /\ chunk_files' = kept
    /\ pc' = "done"
    /\ UNCHANGED <<store_vars, results, results0, run_date, idx, local_bucket, db_service,
                   db_type, main_db_type, mongo_import, same_dir, aws_execution_env, mongo, backup_dir, exported_count,
                   log, closed>>
    /\ UNCHANGED aws_vars
    /\ UNCHANGED <<writer_vars, first_run>>

\* main(), after export_results has returned: db_type = get_database_type()
MainGetType ==
    /\ pc = "done"
    /\ main_db_type' = get_database_type(path_exists(local_bucket))
    /\ pc' = "returned"
    /\ UNCHANGED <<store_vars, results, results0, run_date, idx, local_bucket, db_service,
                   db_type, mongo_import, same_dir, aws_execution_env, mongo, backup_dir, exported_count,
                   log, closed, chunk_files>>
    /\ UNCHANGED aws_vars
    /\ UNCHANGED <<writer_vars, first_run>>

Init == InitExport

Next ==
    \/ ShapeOne
    \/ ShapeDone
    \/ \E importable \in BOOLEAN, constructs \in BOOLEAN, same \in BOOLEAN :
          GetService(importable, constructs, same)
    \/ GetType
    \/ \E io \in SaveOutcomes, bio \in BackupOutcomes : ExportOne(io, bio)
    \/ ExportDone
    \/ Close
    \/ \E kept \in SUBSET chunk_files : Cleanup(kept)
    \/ MainGetType

Spec == Init /\ [][Next]_vars

-----------------------------------------------------------------------------
(* export_results run again for the same results and date *)

\* What the first run leaves to the second: how it ended, its results dict
\* (shaped in place), its driver and directories, the stores as it left them
RunRecord ==
    [ended |-> pc, clean |-> \A i \in 1..Len(log) : log[i].ok,
     results |-> results, db_service |-> db_service, same_dir |-> same_dir,
     metrics_dir |-> metrics_dir, backup_dir |-> backup_dir, mongo |-> mongo]

SecondRun == first_run # NoRun

\* export_results is called again after the first run returned or was left by
\* an exception, with the same date, stores and environment: with the results
\* dict of the first call, which that call shaped in place, or (fresh) with
\* results that were computed again
Rerun(fresh) ==
    /\ pc \in {"returned", "raised"}
    /\ ~SecondRun
    /\ first_run' = RunRecord
    /\ results' = IF fresh THEN results0 ELSE results
    /\ pc' = "shape"
    /\ idx' = 1
    /\ db_service' = "unset"
    /\ db_type' = "unset"
    /\ main_db_type' = "unset"
    /\ mongo_import' = "not_tried"
    /\ same_dir' = FALSE
    /\ exported_count' = 0
    /\ log' = <<>>
    /\ closed' = 0
    /\ UNCHANGED <<store_vars, results0, run_date, local_bucket, aws_execution_env, mongo,
                   backup_dir, chunk_files>>
    /\ UNCHANGED <<aws_vars, writer_vars>>

\* The results of the runs that are run again
RerunResults ==
    { [success |-> FALSE, errors |-> <<"error">>],
      [success |-> TRUE, indicators |-> IndSmall, errors |-> <<>>],
      [success |-> TRUE, indicators |-> IndLarge, errors |-> <<>>] }

InitRerun ==
    /\ InitExport
    /\ DOMAIN results = DataTypes
    /\ \A t \in DOMAIN results : results[t] \in RerunResults
    /\ local_bucket \in {"absent", "dir"}
    /\ aws_execution_env \in {<<>>, <<"AWS_Lambda_python3.11">>}

\* How the writes of the first run can go: the write is made, or the file is
\* left truncated, or the write raises and the run stops part-way
FirstRunSaves == {"ok", "dump_raises", "save_raises"}

\* The first run, with writes that can fail; then the second run under the
\* same configuration (the driver and the directories of the first), whose
\* writes are all made
NextRerun ==
    \/ ShapeOne
    \/ ShapeDone
    \/ \E importable \in BOOLEAN, constructs \in BOOLEAN, same \in BOOLEAN :
          /\ GetService(importable, constructs, same)
          /\ IF SecondRun
             THEN db_service' = first_run.db_service /\ same_dir' = first_run.same_dir
             ELSE TRUE
    \/ GetType
    \/ \E io \in FirstRunSaves, bio \in BackupOutcomes :
          /\ io \in (IF SecondRun THEN {"ok"} ELSE FirstRunSaves)
          /\ bio \in (IF SecondRun THEN {"ok"} ELSE BackupOutcomes)
          /\ ExportOne(io, bio)
    \/ ExportDone
    \/ Close
    \/ Cleanup({})
    \/ MainGetType
    \/ \E fresh \in BOOLEAN : Rerun(fresh)

SpecRerun == InitRerun /\ [][NextRerun]_vars

-----------------------------------------------------------------------------
(* export_results beside another process that changes the working directory *)

\* Another process creates or removes bucket-cityflow-paris-s3-raw. The run
\* reads the path in get_database_service, in get_database_type and again in
\* main: a change is seen by the next of these reads, so the changes before
\* the second and before the third read are all that the run can tell apart.
OtherProcess(b) ==
    /\ pc \in {"get_type", "done"}
    /\ b # local_bucket
    /\ local_bucket' = b
    /\ UNCHANGED <<store_vars, results, results0, run_date, pc, idx, db_service, db_type,
                   main_db_type, mongo_import, same_dir, aws_execution_env, mongo,
                   backup_dir, exported_count, log, closed, chunk_files>>
    /\ UNCHANGED aws_vars
    /\ UNCHANGED <<writer_vars, first_run>>

\* The results of the runs beside another process
RaceResults ==
    { [success |-> FALSE, errors |-> <<"error">>],
      [success |-> TRUE, indicators |-> IndSmall, errors |-> <<>>] }

InitRace ==
    /\ InitExport
    /\ \A t \in DOMAIN results : results[t] \in RaceResults

NextRace ==
    \/ Next
    \/ \E b \in LocalBucketStates : OtherProcess(b)

SpecRace == InitRace /\ [][NextRace]_vars

-----------------------------------------------------------------------------
(* utils.aws_services: DynamoDBService, save_metrics_to_dynamodb *)

MaxCalls == 3

\* An entry of aws_log
AwsEvent(ev, target, key, ok) == [ev |-> ev, target |-> target, key |-> key, ok |-> ok]

\* How a request to AWS can go: it is answered, it fails with a ClientError
\* (the service refuses it: throttling, access denied), or it fails with an
\* error that is no ClientError (TypeError of the serializer on a float,
\* NoCredentialsError, EndpointConnectionError, the waiter's WaiterError).
Faults == {"none", "ClientError", "OtherError"}

\* Table.put_item(Item=item) of boto3: the item replaces the one of its key;
\* a table that does not exist is a ClientError (ResourceNotFoundException).
boto_put_exc(tbls, table_name, fault) ==
    IF fault # "none" THEN fault
    ELSE IF table_name \notin DOMAIN tbls THEN "ClientError"
    ELSE ""

boto_put_item(tbls, table_name, key, item, fault) ==
    IF boto_put_exc(tbls, table_name, fault) # "" THEN tbls
    ELSE [tbls EXCEPT ![table_name] =
             [k \in (DOMAIN tbls[table_name]) \cup {key} |->
                 IF k = key THEN item ELSE tbls[table_name][k]]]

\* os.getenv(name, default)
getenv(env, default) == IF env = <<>> THEN default ELSE env[1]

\* The item save_metrics_to_dynamodb prepares
MetricItem(metrics, data_type, date, ts) ==
    [metric_type |-> data_type, date |-> date, timestamp |-> ts, metrics |-> metrics,
     ttl |-> ts + 365]

\* The item upload_report_file prepares
ReportItem(report, report_id, date, ts) ==
    [report_id |-> report_id, date |-> date, timestamp |-> ts, report |-> report,
     ttl |-> ts + 365]

\* DynamoDBService.put_item: True without a request when self.table is None
\* (simulation); else True when the request is answered, False on a
\* ClientError; any other exception leaves the method.
put_item(has_table, tbls, table_name, fault) ==
    IF ~has_table THEN [ok |-> TRUE, exc |-> ""]
    ELSE LET e == boto_put_exc(tbls, table_name, fault) IN
         CASE e = ""            -> [ok |-> TRUE, exc |-> ""]
           [] e = "ClientError" -> [ok |-> FALSE, exc |-> ""]
           [] OTHER             -> [ok |-> FALSE, exc |-> e]

\* The value of DYNAMODB_METRICS_TABLE: unset, or the table of the setup script
TableEnvChoices == {<<>>, <<"cityflow-metrics">>}

\* save_metrics_to_dynamodb(metrics, data_type, date): has_table is whether
\* DynamoDBService.__init__ got a Table (boto3 importable, the resource made)
SaveMetricsToDynamodb(metrics, data_type, date, env, has_table, fault) ==
    /\ tool = "dynamo"
    /\ aws_calls < MaxCalls
    /\ LET table_name == getenv(env, "cityflow-" \o data_type \o "-metrics")
           item == MetricItem(metrics, data_type, date, aws_calls + 1)
           r == put_item(has_table, tables, table_name, fault)
       IN /\ tables' = IF has_table
                       THEN boto_put_item(tables, table_name, <<data_type, date>>, item, fault)
                       ELSE tables
          /\ aws_ret' = [op |-> "save_metrics_to_dynamodb", ok |-> r.ok, exc |-> r.exc,
                         fault |-> IF has_table
                                   THEN (IF boto_put_exc(tables, table_name, fault) = ""
                                         THEN "none"
                                         ELSE boto_put_exc(tables, table_name, fault))
                                   ELSE "simulation",
                         table_name |-> table_name,
                         env |-> env, key |-> <<data_type, date>>, val |-> metrics]
          /\ aws_log' = IF has_table /\ boto_put_exc(tables, table_name, fault) = ""
                        THEN Append(aws_log, AwsEvent("put_item", table_name,
                                                      <<data_type, date>>, TRUE))
                        ELSE aws_log
    /\ aws_calls' = aws_calls + 1
    /\ UNCHANGED <<tool, apc, s3, args, out_exists, uploader, file_list, fpos, stats,
                   total_success, total_failed, exit_status>>
    /\ UNCHANGED <<store_vars, export_vars, writer_vars, first_run>>

\* The value of DYNAMODB_REPORTS_TABLE: unset, or the table of the setup script
ReportTableEnvChoices == {<<>>, <<"cityflow-reports">>}

\* save_report_to_dynamodb(report, date)
SaveReportToDynamodb(report, date, env, has_table, fault) ==
    /\ tool = "dynamo"
    /\ aws_calls < MaxCalls
    /\ LET table_name == getenv(env, "cityflow-daily-reports")
           report_id == <<"daily", "report", date>>
           item == ReportItem(report, report_id, date, aws_calls + 1)
           r == put_item(has_table, tables, table_name, fault)
       IN /\ tables' = IF has_table
                       THEN boto_put_item(tables, table_name, <<report_id, date>>, item, fault)
                       ELSE tables
          /\ aws_ret' = [op |-> "save_report_to_dynamodb", ok |-> r.ok, exc |-> r.exc,
                         fault |-> IF has_table
                                   THEN (IF boto_put_exc(tables, table_name, fault) = ""
                                         THEN "none"
                                         ELSE boto_put_exc(tables, table_name, fault))
                                   ELSE "simulation",
                         table_name |-> table_name,
                         env |-> env, key |-> <<report_id, date>>, val |-> report]
          /\ aws_log' = IF has_table /\ boto_put_exc(tables, table_name, fault) = ""
                        THEN Append(aws_log, AwsEvent("put_item", table_name,
                                                      <<report_id, date>>, TRUE))
                        ELSE aws_log
    /\ aws_calls' = aws_calls + 1
    /\ UNCHANGED <<tool, apc, s3, args, out_exists, uploader, file_list, fpos, stats,
                   total_success, total_failed, exit_status>>
    /\ UNCHANGED <<store_vars, export_vars, writer_vars, first_run>>

\* Table.get_item(Key=key) of boto3: the exception it raises, if any
boto_get_exc(tbls, table_name, fault) ==
    IF fault # "none" THEN fault
    ELSE IF table_name \notin DOMAIN tbls THEN "ClientError"
    ELSE ""

\* DynamoDBService.get_item: [exc, val]. None without a request when
\* self.table is None (simulation); else response.get("Item"), None on a
\* ClientError; any other exception leaves the method.
get_item(has_table, tbls, table_name, key, fault) ==
    IF ~has_table THEN [exc |-> "", val |-> PyNone]
    ELSE LET e == boto_get_exc(tbls, table_name, fault) IN
         CASE e = ""            -> [exc |-> "",
                                    val |-> IF key \in DOMAIN tbls[table_name]
                                            THEN tbls[table_name][key] ELSE PyNone]
           [] e = "ClientError" -> [exc |-> "", val |-> PyNone]
           [] OTHER             -> [exc |-> e, val |-> PyNone]

\* load_metrics_from_dynamodb(data_type, date): item.get("metrics") of the
\* item of the key, None when there is none
load_metrics_from_dynamodb(data_type, date, env, has_table, tbls, fault) ==
    LET table_name == getenv(env, "cityflow-" \o data_type \o "-metrics")
        got == get_item(has_table, tbls, table_name, <<data_type, date>>, fault)
    IN [exc |-> got.exc,
        val |-> IF got.val # PyNone THEN dict_get(got.val, "metrics", PyNone) ELSE PyNone]

\* A call of load_metrics_from_dynamodb; saved is history: the outcome and the
\* metrics of the save the call follows
LoadMetricsFromDynamodb(data_type, date, env, has_table, fault) ==
    /\ tool = "dynamo"
    /\ LET r == load_metrics_from_dynamodb(data_type, date, env, has_table, tables, fault)
       IN aws_ret' = [op |-> "load_metrics_from_dynamodb", ok |-> r.exc = "", exc |-> r.exc,
                      fault |-> IF has_table THEN fault ELSE "simulation",
                      table_name |-> getenv(env, "cityflow-" \o data_type \o "-metrics"),
                      env |-> env, key |-> <<data_type, date>>, val |-> r.val,
                      saved |-> [ok |-> aws_ret.ok, val |-> aws_ret.val]]
    /\ UNCHANGED aws_calls
    /\ UNCHANGED <<tool, apc, tables, s3, args, out_exists, uploader, file_list, fpos, stats,
                   total_success, total_failed, exit_status, aws_log>>
    /\ UNCHANGED <<store_vars, export_vars, writer_vars, first_run>>

-----------------------------------------------------------------------------
(* setup_dynamodb_tables: create_table *)

\* The tables of the setup script
SetupTables == {"cityflow-metrics", "cityflow-reports"}

\* How create_table's requests can go: Faults, and the waiter's error after a
\* request that was answered
CreateFaults == Faults \cup {"WaiterError"}

\* What dynamodb.create_table and table.wait_until_exists do: the exception
\* they raise, if any. A request that fails raises its error; a table of the
\* name is a ClientError with the code ResourceInUseException; else the table
\* is created and the waiter can raise.
create_exc(tbls, table_name, fault) ==
    IF fault \in {"ClientError", "OtherError"} THEN fault
    ELSE IF table_name \in DOMAIN tbls THEN "ResourceInUseException"
    ELSE IF fault = "WaiterError" THEN fault
    ELSE ""

\* Whether DynamoDB has created the table
table_created(tbls, table_name, fault) ==
    table_name \notin DOMAIN tbls /\ fault \in {"none", "WaiterError"}

\* create_table with a table that exists reported as a failure
create_table_strict(tbls, table_name, fault) == create_exc(tbls, table_name, fault) = ""

\* create_table: True when the table was created and when it existed, False
\* for a ClientError of another code and for any other Exception
create_table(tbls, table_name, fault) ==
    create_exc(tbls, table_name, fault) \in {"", "ResourceInUseException"}

\* create_table(dynamodb, table_name, partition_key, sort_key, region)
CreateTable(table_name, fault) ==
    /\ tool = "setup"
    /\ aws_calls < MaxCalls
    /\ LET e == create_exc(tables, table_name, fault)
           created == table_created(tables, table_name, fault)
       IN /\ tables' = IF created
                       THEN [n \in (DOMAIN tables) \cup {table_name} |->
                                IF n = table_name THEN EmptyDict ELSE tables[n]]
                       ELSE tables
          /\ aws_ret' = [op |-> "create_table", ok |-> create_table(tables, table_name, fault),
                         exc |-> "", fault |-> IF e = "" THEN "none" ELSE e,
                         table_name |-> table_name]
          /\ aws_log' = aws_log
                        \o (IF created
                            THEN <<AwsEvent("table_created", table_name, <<>>, TRUE)>>
                            ELSE <<>>)
                        \o <<AwsEvent("create_table", table_name, <<fault>>,
                                      create_table(tables, table_name, fault))>>
    /\ aws_calls' = aws_calls + 1
    /\ UNCHANGED <<tool, apc, s3, args, out_exists, uploader, file_list, fpos, stats,
                   total_success, total_failed, exit_status>>
    /\ UNCHANGED <<store_vars, export_vars, writer_vars, first_run>>

-----------------------------------------------------------------------------
(* upload_to_aws: AWSUploader and main *)

\* The table and the bucket of the uploader, with the environment unset
metrics_table_name == "cityflow-metrics"
reports_table_name == "cityflow-reports"

\* The command lines: --dry-run, --type, --date (<<>> when not given)
ArgChoices ==
    [dry_run : BOOLEAN, type : {"metrics", "reports", "all"},
     date : {<<>>} \cup {<<d>> : d \in Dates}]

\* The files of output/metrics the runs below meet: a record of
\* LocalFileService, a backup file of the export (the bare indicators), a
\* truncated file, a record with empty metrics
FileKinds == <<"backup", "record", "truncated", "record", "empty_metrics">>

FileOfKind(kind, data_type, date) ==
    CASE kind = "record"        -> json_dump(MetricRecord(IndSmall, data_type, date, 1))
      [] kind = "backup"        -> json_dump(IndSmall)
      [] kind = "truncated"     -> TruncatedFile
      [] OTHER                  -> json_dump(MetricRecord(EmptyDict, data_type, date, 1))

TypeIndex(t) == CHOOSE i \in 1..Len(TypeOrder) : TypeOrder[i] = t

UploadPaths == {get_metrics_path(t, d) : t \in StoreTypes, d \in Dates}

RecordsDir ==
    [p \in UploadPaths |-> FileOfKind("record", p[1], p[3])]

MixedDir ==
    [p \in UploadPaths |->
        FileOfKind(FileKinds[((2 * (TypeIndex(p[1]) - 1) + DateIndex(p[3]) - 1) % 5) + 1],
                   p[1], p[3])]

UploadDirs == {EmptyDict, RecordsDir, MixedDir}

ReportsDirs ==
    {EmptyDict,
     [p \in {get_report_path(d) : d \in Dates} |->
         IF DateIndex(p[3]) = 1 THEN json_dump(ReportRecord(SampleReport, p[3], 1))
         ELSE TruncatedFile]}

\* The names in alphabetical order: sorted() on paths of one directory
AlphaOrder ==
    <<"bikes", "chantiers", "comptages", "daily", "referentiel", "traffic", "weather">>

PathRank(p) ==
    (CHOOSE i \in 1..Len(AlphaOrder) : AlphaOrder[i] = p[1]) * (Len(DateOrder) + 1)
    + DateIndex(p[3])

RECURSIVE SortedPaths(_)
SortedPaths(S) ==
    IF S = {} THEN <<>>
    ELSE LET m == CHOOSE p \in S : \A q \in S : PathRank(p) <= PathRank(q)
         IN <<m>> \o SortedPaths(S \ {m})

\* sorted(metrics_dir.glob(pattern)), pattern "*_metrics_{date}.json" or
\* "*_metrics_*.json"
glob_upload_metrics(dir, date_filter) ==
    SortedPaths({p \in DOMAIN dir :
                    /\ Len(p) >= 3
                    /\ p[2] = "metrics"
                    /\ (date_filter = <<>> \/ p[3] = date_filter[1])})

\* sorted(reports_dir.glob(pattern)), pattern "daily_report_{date}.json" or
\* "daily_report_*.json"
glob_upload_reports(dir, date_filter) ==
    SortedPaths({p \in DOMAIN dir :
                    /\ Len(p) >= 3
                    /\ p[1] = "daily" /\ p[2] = "report"
                    /\ (date_filter = <<>> \/ p[3] = date_filter[1])})

\* data.get(k) is truthy, for a string field and for a dict field
FieldStr(data, k) == k \in DOMAIN data /\ data[k] # ""
FieldDict(data, k) == k \in DOMAIN data /\ data[k] # EmptyDict

\* upload_metrics_file up to the put_item: the file is read and has
\* metric_type, date and metrics
ValidMetricsFile(file) ==
    /\ ~json_load(file).raised
    /\ FieldStr(json_load(file).value, "metric_type")
    /\ FieldStr(json_load(file).value, "date")
    /\ FieldDict(json_load(file).value, "metrics")

\* upload_report_file up to the put_item
ValidReportFile(file) ==
    /\ ~json_load(file).raised
    /\ "report_id" \in DOMAIN json_load(file).value
    /\ FieldStr(json_load(file).value, "date")
    /\ FieldDict(json_load(file).value, "report")

\* How the requests of one file can go: all answered, or one raises
UploadFaults == {"none", "put_item", "put_object", "upload_file"}

\* A failed file left out of the count
CountFile_success_only(st, ok) ==
    IF ok THEN [st EXCEPT !.success = st.success + 1] ELSE st

\* if self.upload_metrics_file(file_path): success += 1 else: failed += 1
CountFile(st, ok) ==
    IF ok THEN [st EXCEPT !.success = st.success + 1]
    ELSE [st EXCEPT !.failed = st.failed + 1]

\* The test of the mode with --dry-run ignored
DryRun_ignored(a) == FALSE

\* if args.dry_run:
DryRun(a) == a.dry_run

\* main() up to the real upload: with --dry-run the candidate files are listed
\* and main returns
UploadMain(a) ==
    /\ tool = "upload"
    /\ apc = "start"
    /\ args' = a
    /\ IF DryRun(a)
       THEN /\ file_list' =
                  (IF a.type \in {"metrics", "all"}
                   THEN glob_upload_metrics(metrics_dir, a.date) ELSE <<>>)
                  \o (IF a.type \in {"reports", "all"}
                      THEN glob_upload_reports(reports_dir, a.date) ELSE <<>>)
            /\ exit_status' = 0
            /\ apc' = "exited"
       ELSE /\ apc' = "construct"
            /\ UNCHANGED <<file_list, exit_status>>
    /\ UNCHANGED <<tool, tables, s3, aws_ret, aws_calls, out_exists, uploader, fpos, stats,
                   total_success, total_failed, aws_log>>
    /\ UNCHANGED <<store_vars, export_vars, writer_vars, first_run>>

\* uploader = AWSUploader(): the clients are made, or __init__ exits with 1
ConstructUploader(connected) ==
    /\ apc = "construct"
    /\ IF connected
       THEN uploader' = TRUE /\ apc' = "metrics" /\ UNCHANGED exit_status
       ELSE exit_status' = 1 /\ apc' = "exited" /\ UNCHANGED uploader
    /\ UNCHANGED <<tool, tables, s3, aws_ret, aws_calls, args, out_exists, file_list, fpos,
                   stats, total_success, total_failed, aws_log>>
    /\ UNCHANGED <<store_vars, export_vars, writer_vars, first_run>>

\* upload_all_metrics up to its loop (or past it, when --type leaves it out);
\* an exception of the listing is caught by main, which exits with 1
UploadAllMetricsBegin(listing_raises) ==
    /\ apc = "metrics"
    /\ IF args.type \notin {"metrics", "all"}
       THEN apc' = "reports" /\ UNCHANGED <<file_list, fpos, stats, exit_status>>
       ELSE IF ~out_exists.metrics
       THEN /\ stats' = [success |-> 0, failed |-> 0]
            /\ apc' = "metrics_done"
            /\ UNCHANGED <<file_list, fpos, exit_status>>
       ELSE IF listing_raises
       THEN exit_status' = 1 /\ apc' = "exited" /\ UNCHANGED <<file_list, fpos, stats>>
       ELSE /\ file_list' = glob_upload_metrics(metrics_dir, args.date)
            /\ fpos' = 1
            /\ stats' = [success |-> 0, failed |-> 0]
            /\ apc' = IF file_list' = <<>> THEN "metrics_done" ELSE "metrics_loop"
            /\ UNCHANGED exit_status
    /\ UNCHANGED <<tool, tables, s3, aws_ret, aws_calls, args, out_exists, uploader,
                   total_success, total_failed, aws_log>>
    /\ UNCHANGED <<store_vars, export_vars, writer_vars, first_run>>

\* One round of the loop of upload_all_metrics: upload_metrics_file(file_path),
\* which returns False on a file it cannot read, on a missing field and on
\* any Exception of put_item, then the count
UploadMetricsFile(fault) ==
    /\ apc = "metrics_loop"
    /\ fpos <= Len(file_list)
    /\ fault \in {"none", "put_item"}
    /\ LET path  == file_list[fpos]
           file  == metrics_dir[path]
           valid == ValidMetricsFile(file)
           data  == json_load(file).value
           exc   == boto_put_exc(tables, metrics_table_name,
                                 IF fault = "none" THEN "none" ELSE "OtherError")
           ok    == valid /\ exc = ""
       IN /\ tables' = IF ok
                       THEN boto_put_item(tables, metrics_table_name,
                                          <<data["metric_type"], data["date"]>>,
                                          MetricItem(data["metrics"], data["metric_type"],
                                                     data["date"], data["timestamp"]),
                                          "none")
                       ELSE tables
          /\ aws_log' = aws_log
                        \o (IF ok
                            THEN <<AwsEvent("put_item", metrics_table_name,
                                            <<data["metric_type"], data["date"]>>, TRUE)>>
                            ELSE <<>>)
                        \o <<AwsEvent("upload_metrics_file", "output/metrics", path, ok)>>
          /\ stats' = CountFile(stats, ok)
    /\ fpos' = fpos + 1
    /\ UNCHANGED <<tool, apc, s3, aws_ret, aws_calls, args, out_exists, uploader, file_list,
                   total_success, total_failed, exit_status>>
    /\ UNCHANGED <<store_vars, export_vars, writer_vars, first_run>>

\* upload_all_metrics returns {"success": success, "failed": failed}
UploadAllMetricsEnd ==
    /\ apc = "metrics_loop"
    /\ fpos > Len(file_list)
    /\ apc' = "metrics_done"
    /\ UNCHANGED <<tool, tables, s3, aws_ret, aws_calls, args, out_exists, uploader,
                   file_list, fpos, stats, total_success, total_failed, exit_status, aws_log>>
    /\ UNCHANGED <<store_vars, export_vars, writer_vars, first_run>>

\* total_success += stats["success"]; total_failed += stats["failed"]
AddMetricsStats ==
    /\ apc = "metrics_done"
    /\ total_success' = total_success + stats.success
    /\ total_failed' = total_failed + stats.failed
    /\ apc' = "reports"
    /\ UNCHANGED <<tool, tables, s3, aws_ret, aws_calls, args, out_exists, uploader,
                   file_list, fpos, stats, exit_status, aws_log>>
    /\ UNCHANGED <<store_vars, export_vars, writer_vars, first_run>>

\* upload_all_reports up to its loop (or past it, when --type leaves it out)
UploadAllReportsBegin(listing_raises) ==
    /\ apc = "reports"
    /\ IF args.type \notin {"reports", "all"}
       THEN apc' = "summary" /\ UNCHANGED <<file_list, fpos, stats, exit_status>>
       ELSE IF ~out_exists.reports
       THEN /\ stats' = [success |-> 0, failed |-> 0]
            /\ apc' = "reports_done"
            /\ UNCHANGED <<file_list, fpos, exit_status>>
       ELSE IF listing_raises
       THEN exit_status' = 1 /\ apc' = "exited" /\ UNCHANGED <<file_list, fpos, stats>>
       ELSE /\ file_list' = glob_upload_reports(reports_dir, args.date)
            /\ fpos' = 1
            /\ stats' = [success |-> 0, failed |-> 0]
            /\ apc' = IF file_list' = <<>> THEN "reports_done" ELSE "reports_loop"
            /\ UNCHANGED exit_status
    /\ UNCHANGED <<tool, tables, s3, aws_ret, aws_calls, args, out_exists, uploader,
                   total_success, total_failed, aws_log>>
    /\ UNCHANGED <<store_vars, export_vars, writer_vars, first_run>>

\* One round of the loop of upload_all_reports: upload_report_file(file_path)
\* writes the table item, then the JSON object, then the CSV object when the
\* CSV file is there; the first Exception ends it with False, what was written
\* before stays written.
UploadReportFile(fault, csv_exists) ==
    /\ apc = "reports_loop"
    /\ fpos <= Len(file_list)
    /\ csv_exists \in (IF fault = "upload_file" THEN {TRUE} ELSE BOOLEAN)
    /\ LET path  == file_list[fpos]
           file  == reports_dir[path]
           valid == ValidReportFile(file)
           data  == json_load(file).value
           exc   == boto_put_exc(tables, reports_table_name,
                                 IF fault = "put_item" THEN "OtherError" ELSE "none")
           item_ok   == valid /\ exc = ""
           object_ok == item_ok /\ fault # "put_object"
           csv_ok    == object_ok /\ csv_exists /\ fault # "upload_file"
           ok        == object_ok /\ (csv_exists => csv_ok)
       IN /\ tables' = IF item_ok
                       THEN boto_put_item(tables, reports_table_name,
                                          <<data["report_id"], data["date"]>>,
                                          ReportItem(data["report"], data["report_id"],
                                                     data["date"], data["timestamp"]),
                                          "none")
                       ELSE tables
          /\ s3' = s3 \cup (IF object_ok THEN {<<"json", data["date"]>>} ELSE {})
                      \cup (IF csv_ok THEN {<<"csv", data["date"]>>} ELSE {})
          /\ aws_log' = aws_log
                        \o (IF item_ok
                            THEN <<AwsEvent("put_item", reports_table_name,
                                            <<data["report_id"], data["date"]>>, TRUE)>>
                            ELSE <<>>)
                        \o (IF object_ok
                            THEN <<AwsEvent("put_object", "s3", <<"json", data["date"]>>, TRUE)>>
                            ELSE <<>>)
                        \o (IF csv_ok
                            THEN <<AwsEvent("upload_file", "s3", <<"csv", data["date"]>>, TRUE)>>
                            ELSE <<>>)
                        \o <<AwsEvent("upload_report_file", "output/reports", path, ok)>>
          /\ stats' = CountFile(stats, ok)
    /\ fpos' = fpos + 1
    /\ UNCHANGED <<tool, apc, aws_ret, aws_calls, args, out_exists, uploader, file_list,
                   total_success, total_failed, exit_status>>
    /\ UNCHANGED <<store_vars, export_vars, writer_vars, first_run>>

UploadAllReportsEnd ==
    /\ apc = "reports_loop"
    /\ fpos > Len(file_list)
    /\ apc' = "reports_done"
    /\ UNCHANGED <<tool, tables, s3, aws_ret, aws_calls, args, out_exists, uploader,
                   file_list, fpos, stats, total_success, total_failed, exit_status, aws_log>>
    /\ UNCHANGED <<store_vars, export_vars, writer_vars, first_run>>

AddReportsStats ==
    /\ apc = "reports_done"
    /\ total_success' = total_success + stats.success
    /\ total_failed' = total_failed + stats.failed
    /\ apc' = "summary"
    /\ UNCHANGED <<tool, tables, s3, aws_ret, aws_calls, args, out_exists, uploader,
                   file_list, fpos, stats, exit_status, aws_log>>
    /\ UNCHANGED <<store_vars, export_vars, writer_vars, first_run>>

\* The summary is printed (the failures only when there are some) and main
\* returns: the interpreter exits with 0
UploadSummary ==
    /\ apc = "summary"
    /\ exit_status' = 0
    /\ apc' = "exited"
    /\ UNCHANGED <<tool, tables, s3, aws_ret, aws_calls, args, out_exists, uploader,
                   file_list, fpos, stats, total_success, total_failed, aws_log>>
    /\ UNCHANGED <<store_vars, export_vars, writer_vars, first_run>>

-----------------------------------------------------------------------------
(* The AWS programs *)

InitAws ==
    /\ tool \in {"dynamo", "setup", "upload"}
    /\ apc = IF tool = "upload" THEN "start" ELSE "idle"
    /\ tables \in {EmptyDict, [n \in SetupTables |-> EmptyDict]}
    /\ s3 = {}
    /\ aws_ret = NoAwsCall
    /\ aws_calls = 0
    /\ args = NoArgs
    /\ out_exists \in [metrics : BOOLEAN, reports : BOOLEAN]
    /\ metrics_dir \in (IF tool = "upload" /\ out_exists.metrics THEN UploadDirs
                        ELSE {EmptyDict})
    /\ reports_dir \in (IF tool = "upload" /\ out_exists.reports THEN ReportsDirs
                        ELSE {EmptyDict})
    /\ tool # "upload" => out_exists = [metrics |-> TRUE, reports |-> TRUE]
    /\ uploader = FALSE
    /\ file_list = <<>>
    /\ fpos = 1
    /\ stats = [success |-> 0, failed |-> 0]
    /\ total_success = 0
    /\ total_failed = 0
    /\ exit_status = -1
    /\ aws_log = <<>>
    /\ now = 0
    /\ ret = NoCall
    /\ last_good = [k \in StoreKeys |-> PyNone]
    /\ results = EmptyDict
    /\ results0 = EmptyDict
    /\ run_date = DateOrder[1]
    /\ pc = "idle"
    /\ idx = 1
    /\ local_bucket = "absent"
    /\ db_service = "local_files"
    /\ db_type = "local_files"
    /\ main_db_type = "unset"
    /\ mongo_import = "not_tried"
    /\ same_dir = FALSE
    /\ aws_execution_env = <<>>
    /\ mongo = EmptyDict
    /\ backup_dir = EmptyDict
    /\ exported_count = 0
    /\ log = <<>>
    /\ closed = 0
    /\ chunk_files = {}
    /\ SingleRun

\* The date the client of aws_services saves for: one date, so that its saves
\* of a data type meet the item of an earlier save
DynamoDates == {DateOrder[1]}

\* The client of aws_services reads back what it saved: a load follows a save
\* that returned, for the key and under the configuration of the save
AfterSaveMetrics == aws_ret.op = "save_metrics_to_dynamodb" /\ aws_ret.exc = ""

NextAws ==
    \/ \E metrics \in {IndSmall, IndLarge}, data_type \in DataTypes, date \in DynamoDates,
          env \in TableEnvChoices, has_table \in BOOLEAN, fault \in Faults :
          SaveMetricsToDynamodb(metrics, data_type, date, env, has_table, fault)
    \/ \E date \in DynamoDates, env \in ReportTableEnvChoices, has_table \in BOOLEAN,
          fault \in Faults :
          SaveReportToDynamodb(SampleReport, date, env, has_table, fault)
    \/ \E fault \in Faults :
          /\ AfterSaveMetrics
          /\ LoadMetricsFromDynamodb(aws_ret.key[1], aws_ret.key[2], aws_ret.env,
                                     aws_ret.fault # "simulation", fault)
    \/ \E table_name \in SetupTables, fault \in CreateFaults :
          CreateTable(table_name, fault)
    \/ \E a \in ArgChoices : UploadMain(a)
    \/ \E connected \in BOOLEAN : ConstructUploader(connected)
    \/ \E listing_raises \in BOOLEAN : UploadAllMetricsBegin(listing_raises)
    \/ \E fault \in UploadFaults : UploadMetricsFile(fault)
    \/ UploadAllMetricsEnd
    \/ AddMetricsStats
    \/ \E listing_raises \in BOOLEAN : UploadAllReportsBegin(listing_raises)
    \/ \E fault \in UploadFaults, csv_exists \in BOOLEAN : UploadReportFile(fault, csv_exists)
    \/ UploadAllReportsEnd
    \/ AddReportsStats
    \/ UploadSummary

SpecAws == InitAws /\ [][NextAws]_vars

-----------------------------------------------------------------------------
(* Claims on LocalFileService, under SpecStore *)

\* The (data_type, date) keys, resp. dates, that hold a record: a file that is a
\* whole JSON document
StoredDates(data_type) ==
    {d \in Dates : /\ get_metrics_path(data_type, d) \in DOMAIN metrics_dir
                   /\ metrics_dir[get_metrics_path(data_type, d)].complete}

IsAscending(dates) ==
    \A i, j \in 1..Len(dates) : i < j => (StrLeq(dates[i], dates[j]) /\ dates[i] # dates[j])

\* C1: after any sequence of save_metrics calls, load_metrics(data_type, date)
\* returns the metrics of the most recent save_metrics of that key that returned
\* True (None when there was none), each key has one file at most, and a
\* second save of the same metrics reads back as the first.
C1_LoadReturnsLastSuccessfulSave ==
    /\ \A k \in Keys : load_metrics(metrics_dir, k[1], k[2]) = last_good[k]
    /\ \A k \in Keys, m \in {x \in SampleMetrics : Encodable(x)} :
          LET once  == save_metrics_dir(metrics_dir, m, k[1], k[2], now + 1, "ok")
              twice == save_metrics_dir(once, m, k[1], k[2], now + 2, "ok")
          IN /\ load_metrics(twice, k[1], k[2]) = load_metrics(once, k[1], k[2])
             /\ DOMAIN twice = DOMAIN once

\* C2: load_metrics and load_report of a key no save ever stored return None and
\* leave the two directories as they are.
C2_LoadOfMissingKeyIsNone ==
    [][ /\ (ret'.op = "load_metrics" /\ last_good[<<ret'.data_type, ret'.date>>] = PyNone)
            => (ret'.val = PyNone /\ UNCHANGED <<metrics_dir, reports_dir>>)
        /\ (ret'.op = "load_report" /\ last_good[<<"daily_report", ret'.date>>] = PyNone)
            => (ret'.val = PyNone /\ UNCHANGED <<metrics_dir, reports_dir>>) ]_vars

\* C2 witness: load_metrics was called for a key never saved while the
\* directory holds a record of the same data type for another date.
C2_Witness ==
    /\ ret.op = "load_metrics"
    /\ last_good[<<ret.data_type, ret.date>>] = PyNone
    /\ ret.val = PyNone
    /\ \E d \in Dates : d # ret.date /\ last_good[<<ret.data_type, d>>] # PyNone
    /\ \E d \in Dates : last_good[<<"daily_report", d>>] # PyNone

\* C3: query_metrics_by_date_range(data_type, start, end) returns one entry for
\* every stored record of data_type with start <= date <= end, nothing else,
\* in ascending order of date.
C3_RangeQueryReturnsStoredRecords ==
    ret.op = "query_metrics_by_date_range" =>
        LET wanted == {d \in StoredDates(ret.data_type) :
                          StrLeq(ret.date, d) /\ StrLeq(d, ret.end_date)}
        IN /\ Len(ret.seq) = Cardinality(wanted)
           /\ {ret.seq[i].date : i \in 1..Len(ret.seq)} = wanted
           /\ \A i \in 1..Len(ret.seq) :
                 ret.seq[i].metrics =
                    metrics_dir[get_metrics_path(ret.data_type, ret.seq[i].date)].doc.metrics
           /\ IsAscending([i \in 1..Len(ret.seq) |-> ret.seq[i].date])

\* C4: list_available_dates(data_type) returns, ascending and without
\* duplicates, exactly the dates a record of data_type is stored for.
C4_ListReturnsStoredDates ==
    ret.op = "list_available_dates" =>
        /\ IsAscending(ret.seq)
        /\ {ret.seq[i] : i \in 1..Len(ret.seq)} = StoredDates(ret.data_type)

-----------------------------------------------------------------------------
(* Claims on export_results, under Spec *)

Shaped == pc # "shape"

LoopsOver == pc \in {"close", "cleanup", "done", "returned"}

\* The data types whose result has indicators the shaping pass visits
WithIndicators ==
    {t \in DOMAIN results0 : TruthyDict(dict_get(results0[t], "indicators", PyNone))}

\* The collections the shaping pass fills dates in
DatedCollections ==
    {"metrics", "top_10_troncons", "top_10_zones_congestionnees", "alertes_congestion"}

\* In collection k of data type t, every record that had an empty date has the
\* run date and every record that had a date has kept it.
DatesFilled(t, k) ==
    \A i \in 1..Len(results0[t]["indicators"][k]) :
        LET old == results0[t]["indicators"][k][i]
            new == results[t]["indicators"][k][i]
        IN "date" \in DOMAIN old =>
              new["date"] = (IF old["date"] = "" THEN run_date ELSE old["date"])

\* C5 as stated: after the shaping pass every nested record of the indicators
\* that had an empty date has the run date, and every record that had a date has
\* kept it.
C5_EveryEmptyDateFilled ==
    Shaped => \A t \in WithIndicators :
                 \A k \in DOMAIN results0[t]["indicators"] : DatesFilled(t, k)

\* C5 amended: after the shaping pass every dict that is an element of the
\* lists metrics, top_10_troncons, top_10_zones_congestionnees and
\* alertes_congestion and had an empty date has the run date; every record of
\* the indicators that had a date has kept it, and a record of any other
\* collection is as it was.
C5_EmptyDateFilledInKnownLists ==
    Shaped => \A t \in WithIndicators :
                 \A k \in DOMAIN results0[t]["indicators"] :
                    IF k \in DatedCollections
                    THEN DatesFilled(t, k)
                    ELSE results[t]["indicators"][k] = results0[t]["indicators"][k]

C5_Witness ==
    /\ pc = "done"
    /\ \E t \in WithIndicators :
          /\ results0[t]["indicators"] = IndLarge
          /\ results[t]["indicators"]["metrics"][1]["date"] = run_date
          /\ results[t]["indicators"]["metrics"][2]["date"] = PresetDate
          /\ results[t]["indicators"]["alertes_congestion"][1]["date"] = run_date
          /\ results[t]["indicators"]["debit_horaire"][1]["date"] = ""

\* C6: after the shaping pass every record of top_10_zones_congestionnees has a
\* non-empty zone_fallback: the one it had when that was non-empty, otherwise
\* "Arrondissement {n}" for an arrondissement n other than "Unknown", and
\* "Unknown" for a missing or "Unknown" arrondissement.
C6_ZoneFallbackSynthesised ==
    Shaped => \A t \in WithIndicators :
        "top_10_zones_congestionnees" \in DOMAIN results0[t]["indicators"] =>
            \A i \in 1..Len(results0[t]["indicators"]["top_10_zones_congestionnees"]) :
                LET old == results0[t]["indicators"]["top_10_zones_congestionnees"][i]
                    new == results[t]["indicators"]["top_10_zones_congestionnees"][i]
                IN /\ "zone_fallback" \in DOMAIN new
                   /\ new["zone_fallback"] # ""
                   /\ new["zone_fallback"] =
                        (IF "zone_fallback" \in DOMAIN old /\ old["zone_fallback"] # ""
                            THEN old["zone_fallback"]
                         ELSE IF "arrondissement" \in DOMAIN old
                                 /\ old["arrondissement"] # "Unknown"
                            THEN "Arrondissement " \o old["arrondissement"]
                         ELSE "Unknown")

C6_Witness ==
    /\ pc = "done"
    /\ \E t \in WithIndicators :
          /\ results0[t]["indicators"] = IndLarge
          /\ LET zones == results[t]["indicators"]["top_10_zones_congestionnees"]
             IN /\ zones[1]["zone_fallback"] = "Arrondissement 12"
                /\ zones[2]["zone_fallback"] = "Unknown"
                /\ zones[3]["zone_fallback"] = "Unknown"
                /\ zones[4]["zone_fallback"] = "Arrondissement 12"
                /\ zones[7]["zone_fallback"] = "Paris Centre"

\* The save_metrics calls, resp. backup writes, of the run so far
SaveCalls == {i \in 1..Len(log) : log[i].ev = "save_metrics"}
BackupWrites == {i \in 1..Len(log) : log[i].ev = "backup"}

\* The full (shaped) indicators of a data type
Full(t) == results[t]["indicators"]

Trimmed(i) == log[i].metrics # Full(log[i].data_type)

BackupDir == IF same_dir THEN metrics_dir ELSE backup_dir

\* C8: whenever optimized indicators were written to the backend for a data
\* type, the local backup file written for it holds the full indicators and
\* the backend record holds the trimmed ones.
C8_BackupKeepsFullIndicators ==
    \A i \in SaveCalls :
        Trimmed(i) =>
            LET t == log[i].data_type IN
            /\ (\E j \in BackupWrites : log[j].data_type = t) =>
                  /\ get_metrics_path(t, run_date) \in DOMAIN BackupDir
                  /\ BackupDir[get_metrics_path(t, run_date)] = json_dump(Full(t))
                  /\ Oversized(BackupDir[get_metrics_path(t, run_date)].doc)
            /\ log[i].ok =>
                  /\ <<t, run_date>> \in DOMAIN mongo
                  /\ mongo[<<t, run_date>>].metrics = log[i].metrics
                  /\ ~Oversized(mongo[<<t, run_date>>].metrics)

C8_Witness ==
    /\ pc = "done"
    /\ \E i \in SaveCalls :
          /\ Trimmed(i)
          /\ log[i].ok
          /\ \E j \in BackupWrites : log[j].data_type = log[i].data_type

\* Data type t has a backup file of its full indicators, written by this run
BackedUp(t) ==
    /\ \E j \in BackupWrites : log[j].data_type = t /\ log[j].metrics = Full(t)
    /\ get_metrics_path(t, run_date) \in DOMAIN BackupDir
    /\ BackupDir[get_metrics_path(t, run_date)] = json_dump(Full(t))

NoBackup(t) ==
    /\ ~\E j \in BackupWrites : log[j].data_type = t
    /\ get_metrics_path(t, run_date) \notin DOMAIN backup_dir

ExportableTypes ==
    {t \in DOMAIN results : results[t]["success"] /\ TruthyDict(dict_get(results[t], "indicators", PyNone))}

SavesOk == Cardinality({i \in SaveCalls : log[i].ok})

Attempted(t) ==
    /\ CallsBackend(db_service) =>
          \E i \in 1..Len(log) :
              log[i].data_type = t /\ log[i].ev \in {"save_metrics", "save_raised"}
    /\ WritesBackup(aws_execution_env) =>
          \E i \in 1..Len(log) :
              log[i].data_type = t /\ log[i].ev \in {"backup", "backup_raised"}

\* C11: no storage failure for one data type (a False return or an exception
\* of the backend write, an exception of the backup write) stops
\* export_results: the run is never left by an exception, and at the end of the
\* loop every data type with success true and non-empty indicators was
\* attempted.
C11_NoStorageFailureStopsExport ==
    /\ pc # "raised"
    /\ pc = "done" =>
          /\ \A t \in ExportableTypes : Attempted(t)
          /\ (db_service # "none" => closed = 1)

\* The loop of the export has gone past data type t
Passed(t) ==
    \/ LoopsOver
    \/ pc \in {"export", "raised"} /\ \E i \in 1..(idx - 1) : order[i] = t

\* get_database_service raised: the run has no driver
NoBackend == db_service = "none"

KindsAgree ==
    /\ (db_service \in {"mongodb", "local_files"} /\ db_type # "unset") => db_type = db_service
    /\ (db_type \in {"mongodb", "local_files"} /\ main_db_type # "unset") =>
          main_db_type = db_type

\* C13 as stated: get_database_type returns the document-database kind exactly
\* when the directory bucket-cityflow-paris-s3-raw exists and the local-file
\* kind otherwise; two calls under the same filesystem state return the same
\* kind, which is the kind of the driver get_database_service constructs.
C13_KindIffSentinelDirectory ==
    /\ main_db_type # "unset" =>
          main_db_type = (IF local_bucket = "dir" THEN "mongodb" ELSE "local_files")
    /\ KindsAgree

\* C13 amended: ... the document-database kind exactly when the path
\* bucket-cityflow-paris-s3-raw exists in the working directory, as a directory
\* or as a file ...
C13_KindIffSentinelPathExists ==
    /\ main_db_type # "unset" =>
          main_db_type = (IF local_bucket \in {"dir", "file"} THEN "mongodb"
                          ELSE "local_files")
    /\ db_type \in {"mongodb", "local_files"} =>
          db_type = (IF local_bucket \in {"dir", "file"} THEN "mongodb" ELSE "local_files")
    /\ KindsAgree

C13_Witness ==
    /\ pc = "returned"
    /\ local_bucket = "dir"
    /\ db_service = "mongodb"
    /\ db_type = "mongodb"
    /\ main_db_type = "mongodb"

\* C14: when the sentinel exists and the client library of the document
\* database cannot be imported, get_database_service raises and returns no
\* LocalFileService: the run has no driver and nothing is saved through one.
C14_NoSilentFallbackToLocalFiles ==
    mongo_import = "ImportError" =>
        /\ path_exists(local_bucket)
        /\ db_service = "none"
        /\ db_type = "local"
        /\ \A i \in 1..Len(log) : log[i].ev \notin {"save_metrics", "save_raised"}
        /\ exported_count = 0

C14_Witness ==
    /\ pc = "returned"
    /\ local_bucket = "dir"
    /\ mongo_import = "ImportError"
    /\ db_service = "none"
    /\ ExportableTypes # {}

\* The file at path in dir is the record {metric_type, date, timestamp, metrics}
\* of the data type and date of its name
IsMetricRecordFile(dir, path) ==
    /\ dir[path].complete
    /\ DOMAIN dir[path].doc = {"metric_type", "date", "timestamp", "metrics"}
    /\ dir[path].doc["metric_type"] = path[1]
    /\ dir[path].doc["date"] = path[3]

\* C20: every file {data_type}_metrics_{date}.json an export has produced, by
\* LocalFileService.save_metrics or by the backup write, is a record with the
\* fields metric_type, date, timestamp and metrics, with the data type and date
\* of its name.
C20_LocalFilesAreMetricRecords ==
    /\ \A path \in DOMAIN metrics_dir : IsMetricRecordFile(metrics_dir, path)
    /\ \A path \in DOMAIN backup_dir : IsMetricRecordFile(backup_dir, path)

-----------------------------------------------------------------------------
(* Claims on the AWS programs, under SpecAws *)

\* The entries of aws_log of one kind, in order
AwsEvents(ev) == SelectSeq(aws_log, LAMBDA e : e.ev = ev)

\* C15: a metrics save never raises on a backend error:
\* save_metrics_to_dynamodb returns False for every failure of the request,
\* a ClientError or not, and no exception reaches its caller.
C15_SaveNeverRaises ==
    aws_ret.op = "save_metrics_to_dynamodb" =>
        /\ aws_ret.exc = ""
        /\ aws_ret.fault \in {"ClientError", "OtherError"} => ~aws_ret.ok

\* C16: upload_all_metrics attempts every candidate file, in order: a file
\* that cannot be read or lacks metric_type, date or metrics is counted failed
\* and writes nothing to the table, a file whose put_item raises is counted
\* failed, the files after it are still uploaded, and success + failed is the
\* number of candidate files when the function returns.
C16_EveryCandidateAttempted ==
    apc \in {"metrics_loop", "metrics_done"} =>
        LET evs  == AwsEvents("upload_metrics_file")
            puts == AwsEvents("put_item")
            done == IF apc = "metrics_done" THEN Len(file_list) ELSE fpos - 1
        IN /\ Len(evs) = done
           /\ \A i \in 1..Len(evs) :
                 /\ evs[i].key = file_list[i]
                 /\ ~ValidMetricsFile(metrics_dir[file_list[i]]) => ~evs[i].ok
           /\ stats.success = Cardinality({i \in 1..Len(evs) : evs[i].ok})
           /\ stats.success + stats.failed = done
           /\ Len(puts) = stats.success
           /\ \A j \in 1..Len(puts) :
                 \E i \in 1..Len(evs) :
                    /\ evs[i].ok
                    /\ puts[j].key = <<json_load(metrics_dir[file_list[i]]).value["metric_type"],
                                       json_load(metrics_dir[file_list[i]]).value["date"]>>

C16_Witness ==
    /\ apc = "metrics_done"
    /\ metrics_dir = MixedDir
    /\ Len(file_list) = Cardinality(UploadPaths)
    /\ LET evs == AwsEvents("upload_metrics_file") IN
       /\ ~ValidMetricsFile(metrics_dir[file_list[1]]) /\ ~evs[1].ok
       /\ ValidMetricsFile(metrics_dir[file_list[2]]) /\ ~evs[2].ok
       /\ evs[Len(evs)].ok \/ evs[Len(evs) - 1].ok
    /\ stats.success >= 1
    /\ stats.failed >= 3

\* C17: with --dry-run the tool only lists the candidate files, for every
\* --type and --date: no put_item, no put_object, no upload_file, and no AWS
\* client is constructed.
C17_DryRunWritesNothing ==
    args.dry_run =>
        /\ aws_log = <<>>
        /\ s3 = {}
        /\ \A n \in DOMAIN tables : tables[n] = EmptyDict
        /\ ~uploader
        /\ apc = "exited"
        /\ exit_status = 0

C17_Witness ==
    /\ args.dry_run
    /\ args.type = "all"
    /\ args.date # <<>>
    /\ apc = "exited"
    /\ Len(file_list) >= 3

\* C18: the exit status of the tool reflects the aggregate result: a run in
\* which a file failed to upload does not exit with the status 0 of a run in
\* which every file succeeded.
C18_ExitStatusReflectsFailures ==
    (apc = "exited" /\ total_failed > 0) => exit_status # 0

\* C19: create_table returns True when the table was created and when it
\* existed (ResourceInUseException), False for any other error; two calls for
\* one table name that meet no other error return True both, and DynamoDB has
\* created one table of the name at most, which is there.
C19_CreateTableIdempotent ==
    LET calls == AwsEvents("create_table") IN
    /\ aws_ret.op = "create_table" =>
          (aws_ret.ok <=> aws_ret.fault \in {"none", "ResourceInUseException"})
    /\ \A i \in 1..Len(calls) :
          /\ calls[i].key = <<"none">> => calls[i].ok
          /\ calls[i].ok => calls[i].target \in DOMAIN tables
          /\ \A j \in (i + 1)..Len(calls) :
                (calls[j].target = calls[i].target /\ calls[i].ok
                 /\ calls[j].key[1] \in {"none", "WaiterError"}) => calls[j].ok
    /\ \A n \in SetupTables :
          Len(SelectSeq(AwsEvents("table_created"), LAMBDA e : e.target = n)) <= 1

C19_Witness ==
    LET calls == AwsEvents("create_table") IN
    /\ Len(calls) >= 2
    /\ calls[1].target = calls[2].target
    /\ calls[1].ok /\ calls[2].ok
    /\ Len(SelectSeq(AwsEvents("table_created"), LAMBDA e : e.target = calls[1].target)) = 1
    /\ aws_ret.fault = "ResourceInUseException"

-----------------------------------------------------------------------------
(* Claims on the teardown and the frame of export_results, under Spec *)

\* The run of export_results is over: it returned, or an exception left it
RunEnded == pc \in {"done", "returned", "raised"}

\* get_database_service returned a driver
BackendConstructed == db_service \in {"mongodb", "local_files"}

\* C21: in every run of export_results in which a backend was constructed,
\* close is called on it exactly once, and only after the last save_metrics
\* call of the run, also when a write for some data type fails or raises.
C21_BackendClosedOnceAfterLastSave ==
    /\ closed <= 1
    /\ closed = 1 => pc \in {"cleanup", "done", "returned"}
    /\ (RunEnded /\ BackendConstructed) => closed = 1

\* The data types whose result is an error result (success false or missing)
ErrorTypes == {t \in DOMAIN results0 : ~dict_get(results0[t], "success", FALSE)}

\* C25: export_results shapes and writes only data types with a non-error
\* result: the result of a data type with success false is left as it was (no
\* date backfill, no zone_fallback synthesis), and neither a backend write nor
\* a local backup write is made for it.
C25_ErrorResultsUntouched ==
    \A t \in ErrorTypes :
        /\ results[t] = results0[t]
        /\ \A i \in 1..Len(log) : log[i].data_type # t
        /\ get_metrics_path(t, run_date) \notin DOMAIN metrics_dir
        /\ get_metrics_path(t, run_date) \notin DOMAIN backup_dir
        /\ <<t, run_date>> \notin DOMAIN mongo

\* C30: when the driver is LocalFileService and config.METRICS_DIR is the
\* service's metrics directory, after export_results load_metrics(data_type,
\* date) returns the exported indicators of every data type counted as
\* exported: the file of the key is still the record save_metrics wrote.
C30_BackupKeepsBackendRecord ==
    (LoopsOver /\ db_service = "local_files" /\ same_dir) =>
        \A i \in SaveCalls :
            log[i].ok =>
                LET t == log[i].data_type IN
                /\ get_metrics_path(t, run_date) \in DOMAIN metrics_dir
                /\ IsMetricRecordFile(metrics_dir, get_metrics_path(t, run_date))
                /\ load_metrics(metrics_dir, t, run_date) = Full(t)

-----------------------------------------------------------------------------
(* Claims on the writes of LocalFileService, under SpecStore *)

\* C27: a save_metrics call that returns False leaves the record stored for
\* its key intact: load_metrics still returns the metrics of the last save of
\* the key that returned True.
C27_FailedSaveKeepsStoredRecord ==
    (ret.op = "save_metrics" /\ ~ret.ok) =>
        load_metrics(metrics_dir, ret.data_type, ret.date)
            = last_good[<<ret.data_type, ret.date>>]

\* What the reads of the other keys return agrees in the two directories:
\* load_metrics of every key but (data_type, date), list_available_dates of the
\* data types in types
SameElsewhere(before, after, data_type, date, types) ==
    /\ \A k \in Keys \ {<<data_type, date>>} :
          load_metrics(after, k[1], k[2]) = load_metrics(before, k[1], k[2])
    /\ \A t \in types :
          list_available_dates(after, t) = list_available_dates(before, t)

\* C29 as stated: save_metrics for (data_type, date) changes only that key's
\* record: for every other key (data_type', date') of the known data types and
\* dates, load_metrics and list_available_dates return the same as before the
\* call, and so do the stored reports.
C29_SaveChangesOnlyItsKey ==
    [][ ret'.op = "save_metrics" =>
          /\ SameElsewhere(metrics_dir, metrics_dir', ret'.data_type, ret'.date,
                           {k[1] : k \in Keys \ {<<ret'.data_type, ret'.date>>}})
          /\ reports_dir' = reports_dir ]_vars

\* C29 amended: ... load_metrics returns the same for every other key,
\* list_available_dates for every other data type, and the stored reports are
\* as they were; this holds for a save that returns False too.
C29_SaveChangesOnlyItsKeyAndTypeListing ==
    [][ ret'.op = "save_metrics" =>
          /\ SameElsewhere(metrics_dir, metrics_dir', ret'.data_type, ret'.date,
                           DataTypes \ {ret'.data_type})
          /\ reports_dir' = reports_dir
          /\ \A d \in Dates : load_report(reports_dir', d) = load_report(reports_dir, d) ]_vars

\* C29 witness: a save_metrics call was made while another key of the same
\* data type or date holds a record, which is still read back.
C29_Witness ==
    /\ ret.op = "save_metrics"
    /\ \E k \in Keys :
          /\ k # <<ret.data_type, ret.date>>
          /\ k[1] = ret.data_type \/ k[2] = ret.date
          /\ last_good[k] # PyNone
          /\ load_metrics(metrics_dir, k[1], k[2]) = last_good[k]

-----------------------------------------------------------------------------
(* Claims on the managed tables, under SpecAws *)

\* The calls of aws_services that write an item
DynamoSaves == {"save_metrics_to_dynamodb", "save_report_to_dynamodb"}

\* C26: with the default configuration (no table name given, the environment
\* variables unset) every table a write targets (save_metrics_to_dynamodb,
\* save_report_to_dynamodb, the upload tool) is one of the two tables
\* cityflow-metrics and cityflow-reports the setup script creates.
C26_WritesTargetProvisionedTables ==
    /\ (aws_ret.op \in DynamoSaves /\ aws_ret.env = <<>>) =>
          aws_ret.table_name \in SetupTables
    /\ tool = "upload" =>
          \A i \in 1..Len(aws_log) :
              aws_log[i].ev = "put_item" => aws_log[i].target \in SetupTables

\* C28: save_metrics_to_dynamodb returns True only if the item was stored:
\* a load_metrics_from_dynamodb that follows, for the same key and under the
\* same configuration, returns the metrics of the save, also when boto3 or
\* the table handle is unavailable.
C28_SaveTrueIsStored ==
    /\ (aws_ret.op = "save_metrics_to_dynamodb" /\ aws_ret.ok) =>
          load_metrics_from_dynamodb(aws_ret.key[1], aws_ret.key[2], aws_ret.env,
                                     aws_ret.fault # "simulation", tables, "none").val
             = aws_ret.val
    /\ (aws_ret.op = "load_metrics_from_dynamodb" /\ aws_ret.saved.ok
        /\ aws_ret.fault \in {"none", "simulation"}) =>
          aws_ret.val = aws_ret.saved.val

-----------------------------------------------------------------------------
(* Claims on export_results beside another process, under SpecRace *)

\* C22: the backend kind is decided once per export run: the kind
\* export_results reports (db_type) is the kind of the driver it writes to,
\* also when another process creates or removes the sentinel directory
\* between the reads of the run.
C22_KindDecidedOncePerRun ==
    (db_type \in {"mongodb", "local_files"} /\ BackendConstructed) =>
        db_service = db_type

-----------------------------------------------------------------------------
(* Claims on two runs in save_metrics, under SpecWriters *)

\* C24: when two runs call save_metrics for the same (data_type, date) at
\* once, the record stored in the end is the record of one of the two, whole
\* (never a mix of both, never a truncated file), and load_metrics returns the
\* metrics of that writer.
C24_OneWriterWins ==
    (DOMAIN writers # {} /\ \A w \in DOMAIN writers : writers[w].pc = "returned") =>
        \E w \in DOMAIN writers :
            LET path == get_metrics_path(writers[w].data_type, writers[w].date) IN
            /\ path \in DOMAIN metrics_dir
            /\ metrics_dir[path] = json_dump(MetricRecord(writers[w].metrics,
                                                          writers[w].data_type,
                                                          writers[w].date, writers[w].ts))
            /\ load_metrics(metrics_dir, writers[w].data_type, writers[w].date)
                  = writers[w].metrics

-----------------------------------------------------------------------------
(* Claims on export_results run again, under SpecRerun *)

\* The run returned and each of its writes was made
RunClean == pc \in {"done", "returned"} /\ \A i \in 1..Len(log) : log[i].ok

\* The files of a directory and the documents of the database without their
\* timestamps
NoTimestamp(doc) ==
    IF "timestamp" \in DOMAIN doc THEN [doc EXCEPT !["timestamp"] = 0] ELSE doc

FilesNoTimestamp(dir) ==
    [p \in DOMAIN dir |-> [dir[p] EXCEPT !.doc = NoTimestamp(dir[p].doc)]]

DocsNoTimestamp(db) == [k \in DOMAIN db |-> NoTimestamp(db[k])]

PathsOf(types) == {get_metrics_path(t, run_date) : t \in types}

\* The trimmed payload of the document database: the indicators without the
\* per-segment list when that list is longer than the ceiling
Summary(t) ==
    IF Oversized(Full(t)) THEN [k \in (DOMAIN Full(t)) \ {"metrics"} |-> Full(t)[k]]
    ELSE Full(t)

\* What one run whose writes are all made leaves in stores that were empty
\* before the first run: a record per exported data type in the backend, a
\* backup file per exported data type unless AWS_EXECUTION_ENV is set, and
\* nothing else.
SingleRunStores ==
    LET backup == aws_execution_env \in {<<>>, <<"">>} IN
    /\ DOMAIN mongo = (IF db_service = "mongodb"
                       THEN {<<t, run_date>> : t \in ExportableTypes} ELSE {})
    /\ \A t \in ExportableTypes :
          db_service = "mongodb" =>
              NoTimestamp(mongo[<<t, run_date>>])
                 = NoTimestamp(MetricRecord(Summary(t), t, run_date, 0))
    /\ DOMAIN backup_dir = (IF backup /\ ~same_dir THEN PathsOf(ExportableTypes) ELSE {})
    /\ \A p \in DOMAIN backup_dir : backup_dir[p] = json_dump(Full(p[1]))
    /\ DOMAIN metrics_dir = (IF db_service = "local_files" THEN PathsOf(ExportableTypes)
                             ELSE {})
    /\ \A p \in DOMAIN metrics_dir :
          IF backup /\ same_dir
          THEN metrics_dir[p] = json_dump(Full(p[1]))
          ELSE /\ metrics_dir[p].complete
               /\ NoTimestamp(metrics_dir[p].doc)
                     = NoTimestamp(MetricRecord(Full(p[1]), p[1], run_date, 0))

\* C23: running export_results again with the same results and date leaves
\* the backend and the local backup with the records of a single run (but for
\* the timestamps), also when the first run stopped part-way or left a
\* truncated file; the second shaping pass changes nothing.
C23_RerunLeavesSameRecords ==
    /\ RunClean => SingleRunStores
    /\ (SecondRun /\ Shaped) => results = first_run.results
    /\ (SecondRun /\ RunClean /\ first_run.clean /\ first_run.ended = "returned") =>
          /\ FilesNoTimestamp(metrics_dir) = FilesNoTimestamp(first_run.metrics_dir)
          /\ backup_dir = first_run.backup_dir
          /\ DocsNoTimestamp(mongo) = DocsNoTimestamp(first_run.mongo)

\* C23 witness: the first run left a truncated file and was stopped part-way
\* by an exception; the second run has shaped the results again and returned,
\* and the stores are those of a single run.
C23_Witness ==
    /\ SecondRun
    /\ pc = "returned"
    /\ first_run.ended = "raised"
    /\ \E p \in DOMAIN first_run.metrics_dir : ~first_run.metrics_dir[p].complete
    /\ DOMAIN first_run.backup_dir # PathsOf(ExportableTypes)
    /\ results # results0
    /\ Cardinality(ExportableTypes) = NTypes
    /\ SingleRunStores
    /\ DOMAIN backup_dir = PathsOf(ExportableTypes)

====
